---------------------------- MODULE Spec2Model ----------------------------
(***************************************************************************)
(* A model of json-autotranslate: the interpolation matchers, the          *)
(* per-file translator returned by createTranslator, the translate run     *)
(* around it, and the batching / retrying DeepL provider.                  *)
(*                                                                         *)
(* Strings that are keys of a catalog are modelled as the sequence of      *)
(* their dot-separated segments: "a.b" is <<"a", "b">>.  Joining with "."  *)
(* is concatenation of such sequences and key.split(".") is the sequence   *)
(* itself.  A value is the sequence of its words, the empty string is <<>>.  *)
(***************************************************************************)
EXTENDS Integers, Sequences, FiniteSets, TLC

VARIABLES
  \* ---- one call of the function createTranslator returns (FileSpec) ----
  fpc,            \* "ready" | "done" | "failed"
  fopts,          \* [type, deleteUnusedStrings, service, targetLang]
  sourceFile,     \* the loaded source file: [type, content]
  destinationFile,\* the loaded target file: [present, content]
  cacheFile,      \* cacheDir/<sourceLang>/<name>: [present, json]
  cacheDiff,      \* the changed keys the call computed from the cache
  submitted,      \* the units handed to translationService.translateStrings
  translated,     \* what translateStrings returned
  written,        \* target file on disk after the call: [present, json]
  langCache,      \* cacheDir/<targetLang>/<name> after the call: [present, json]
  returned,       \* the pair the call returns
  \* ---- runs of translate() over the directories on disk (RunSpec) ----
  rpc,            \* "idle" | "langs" | "files" | "exited"
  ropts,          \* [deleteUnusedStrings, service, supported]
  srcDir,         \* <inputDir>/<sourceLang>: file name -> [present, json]
  tgtDir,         \* <inputDir>/<lang>: lang -> file name -> [present, json]
  cacheDir,       \* <cacheDir>/<sourceLang>: file name -> [present, json]
  langCacheDir,   \* <cacheDir>/<lang>: lang -> file name -> [present, json]
  templateFiles,  \* the source files loaded at the start of the run
  existingFiles,  \* the files of the current language loaded from disk
  langIdx,        \* position of the loop over targetLanguages
  fileIdx,        \* position of the loop over templateFiles
  totalAddedTranslations,
  totalRemovedTranslations,
  runs,           \* the number of runs started
  calls,          \* this run's translateStrings calls:
                  \* [lang, file, strings, persisted, results, unused,
                  \*  cacheDiff, threw]
  cleanSince,     \* the last run finished and the source was not edited since
  rerun,          \* the current run started with cleanSince true
  diskAtStart,    \* the directories as the current run found them
  thrownIn,       \* the language whose translateStrings call threw, or ""
  initError,      \* translationService.initialize threw in the current run
  \* ---- one call of DeepL.translateStrings (BatchSpec) ----
  bpc,            \* "loop" | "fetch" | "done" | "thrown"
  batchSize,      \* this.batchSize, as initialize stored it
  strings,        \* the units to translate
  loopI,          \* the i of the loop over the batches
  chunk,          \* the batch runTranslation is working on
  triesLeft,      \* the triesLeft of the current runTranslation call
  responses,      \* the results collected so far
  result,         \* what translateStrings returned: [returned, value]
  error,          \* the error thrown: [status, body]
  batches,        \* the batches submitted so far, in order
  retries,        \* the recursive runTranslation calls made for this batch
  lastResponse,   \* the response of the latest fetch
  \* ---- one string through the matcher engine (MatchSpec) ----
  mpc,            \* "input" | "extracted" | "restored"
  matcher,        \* the interpolation matcher in use
  input,          \* the string given to replaceInterpolations
  clean,          \* the marked text it returned
  replacements,   \* the replacements it returned: [from, to]
  restored,       \* what reInsertInterpolations made of clean
  \* ---- one call of loadTranslations on a directory (LoadSpec) ----
  lpc,            \* "ready" | "loaded" | "threw"
  directory,      \* the .json files of the directory: name -> [present, json]
  malformed,      \* the files of the directory whose text is no JSON
  fileType,       \* the fileType argument: "auto" | "key-based" | "natural"
  loaded,         \* the files loadTranslations returned
  \* ---- one call of GoogleTranslate.translateStrings (AllSpec) ----
  apc,            \* "ready" | "pending" | "fulfilled" | "rejected"
  inputs,         \* the strings argument
  promises,       \* the promise of every unit: "pending" | "fulfilled" | "rejected"
  settled,        \* the indices of the units in the order their calls ended
  allResult       \* the array translateStrings returned, when fulfilled

fileVars == <<fpc, fopts, sourceFile, destinationFile, cacheFile, cacheDiff, submitted,
              translated, written, langCache, returned>>

runVars == <<rpc, ropts, srcDir, tgtDir, cacheDir, langCacheDir, templateFiles,
             existingFiles, langIdx, fileIdx, totalAddedTranslations,
             totalRemovedTranslations, runs, calls, cleanSince, rerun, diskAtStart, thrownIn,
             initError>>

batchVars == <<bpc, batchSize, strings, loopI, chunk, triesLeft, responses, result,
               error, batches, retries, lastResponse>>

matchVars == <<mpc, matcher, input, clean, replacements, restored>>

loadVars == <<lpc, directory, malformed, fileType, loaded>>

allVars == <<apc, inputs, promises, settled, allResult>>

vars == <<fileVars, runVars, batchVars, matchVars, loadVars, allVars>>

\* what the actions of one specification leave alone
notFile == <<runVars, batchVars, matchVars, loadVars, allVars>>

notRun == <<fileVars, batchVars, matchVars, loadVars, allVars>>

notBatch == <<fileVars, runVars, matchVars, loadVars, allVars>>

notMatch == <<fileVars, runVars, batchVars, loadVars, allVars>>

notLoad == <<fileVars, runVars, batchVars, matchVars, allVars>>

notAll == <<fileVars, runVars, batchVars, matchVars, loadVars>>

-----------------------------------------------------------------------------
(***************************************************************************)
(* JavaScript objects with string keys: a sequence of entries, in          *)
(* insertion order, with unique keys.                                      *)
(***************************************************************************)

Range(seq) == { seq[i] : i \in 1..Len(seq) }

\* Array.prototype.includes
Includes(seq, x) == \E i \in 1..Len(seq) : seq[i] = x

\* Object.keys of a flat catalog
ObjectKeys(cat) == [i \in 1..Len(cat) |-> cat[i].key]

HasKey(cat, k) == \E i \in 1..Len(cat) : cat[i].key = k

Lookup(cat, k) == cat[CHOOSE i \in 1..Len(cat) : cat[i].key = k].val

\* obj[k] = v: an existing key keeps its position, a new key is appended
Assign(cat, k, v) ==
  IF HasKey(cat, k)
  THEN [i \in 1..Len(cat) |->
          IF cat[i].key = k THEN [key |-> k, val |-> v] ELSE cat[i]]
  ELSE Append(cat, [key |-> k, val |-> v])

RECURSIVE Spread(_, _)
\* { ...a, ...b }
Spread(a, b) ==
  IF b = <<>> THEN a
  ELSE Spread(Assign(a, Head(b).key, Head(b).val), Tail(b))

\* lodash omit(obj, keys), for keys that are own properties of obj
Omit(cat, keys) == SelectSeq(cat, LAMBDA e : ~Includes(keys, e.key))


-----------------------------------------------------------------------------
(***************************************************************************)
(* JSON files.  A JSON object is a sequence of properties                  *)
(* [name, leaf, val, kids]: a string-valued property is a leaf, an         *)
(* object-valued one holds its own properties in kids.  A property name is *)
(* a key in the representation above, so a top-level property "a.b" of a   *)
(* flat file has the name <<"a", "b">>.                                    *)
(***************************************************************************)

Leaf(name, v) == [name |-> name, leaf |-> TRUE, val |-> v, kids |-> <<>>]

Node(name, kids) == [name |-> name, leaf |-> FALSE, val |-> <<>>, kids |-> kids]

HasProp(obj, name) == \E i \in 1..Len(obj) : obj[i].name = name

Prop(obj, name) == obj[CHOOSE i \in 1..Len(obj) : obj[i].name = name]

\* obj[name] = p
SetProp(obj, p) ==
  IF HasProp(obj, p.name)
  THEN [i \in 1..Len(obj) |-> IF obj[i].name = p.name THEN p ELSE obj[i]]
  ELSE Append(obj, p)

RECURSIVE FlattenInto(_, _, _)
\* flat's flatten(): step(object, prev) writing output[newKey], keys joined by "."
FlattenInto(output, obj, prev) ==
  IF obj = <<>> THEN output
  ELSE LET p      == Head(obj)
           newKey == prev \o p.name
           out1   == IF p.leaf
                     THEN Assign(output, newKey, p.val)
                     ELSE FlattenInto(output, p.kids, newKey)
       IN  FlattenInto(out1, Tail(obj), prev)

Flatten(json) == FlattenInto(<<>>, json, <<>>)

RECURSIVE UnflattenKey(_, _, _)
\* flat's unflatten(), the walk for one key (overwrite is false): a nested
\* value under a key that already holds a string is ignored, and a string
\* assigned to a key that holds an object replaces the object.
UnflattenKey(recipient, split, v) ==
  LET key1 == <<Head(split)>>
  IN  IF Len(split) = 1
      THEN SetProp(recipient, Leaf(key1, v))
      ELSE IF HasProp(recipient, key1) /\ Prop(recipient, key1).leaf
           THEN recipient
           ELSE LET inner == IF HasProp(recipient, key1)
                             THEN Prop(recipient, key1).kids
                             ELSE <<>>
                IN  SetProp(recipient,
                            Node(key1, UnflattenKey(inner, Tail(split), v)))

RECURSIVE UnflattenFrom(_, _)
UnflattenFrom(res, cat) ==
  IF cat = <<>> THEN res
  ELSE UnflattenFrom(UnflattenKey(res, Head(cat).key, Head(cat).val),
                     Tail(cat))

\* unflatten(translatedFile, { object: !withArrays }), no numeric segments
Unflatten(cat) == UnflattenFrom(<<>>, cat)

\* a flat object as JSON (what JSON.stringify writes for a flat catalog)
FlatJson(cat) == [i \in 1..Len(cat) |-> Leaf(cat[i].key, cat[i].val)]

\* the content of a flat JSON file read without flattening
RawContent(json) == [i \in 1..Len(json) |-> [key |-> json[i].name, val |-> json[i].val]]

\* loadTranslations: the content of one file of the given type
LoadContent(json, type) ==
  IF type = "key-based" THEN Flatten(json) ELSE RawContent(json)

-----------------------------------------------------------------------------
(***************************************************************************)
(* The translator createTranslator returns: translateContent(sourceFile,   *)
(* destinationFile).                                                       *)
(***************************************************************************)

\* deep-object-diff's diff(lhs, rhs) on flat objects: the keys deleted from
\* lhs first, with the value undefined, then the keys of rhs that are added
\* or whose value differs, with the value of rhs
Diff(lhs, rhs) ==
  LET deleted == SelectSeq(lhs, LAMBDA e : ~HasKey(rhs, e.key))
      updated == SelectSeq(rhs, LAMBDA e :
                   ~HasKey(lhs, e.key) \/ Lookup(lhs, e.key) # e.val)
  IN  [i \in 1..Len(deleted) |->
         [key |-> deleted[i].key, undef |-> TRUE, val |-> <<>>]]
      \o
      [i \in 1..Len(updated) |->
         [key |-> updated[i].key, undef |-> FALSE, val |-> updated[i].val]]

\* the JavaScript truthiness of cDiff[k]: undefined and "" are falsy
Truthy(d) == ~d.undef /\ d.val # <<>>

\* a cacheDiff that holds every key when the cache file does not exist
CacheDiff_AllWithoutCache(cache, content) ==
  IF cache.present
  THEN LET cachedFile == Flatten(cache.json)
           cDiff      == Diff(cachedFile, content)
       IN  ObjectKeys(SelectSeq(cDiff, Truthy))
  ELSE ObjectKeys(content)

\* cacheDiff: empty when the cache file does not exist
CacheDiff(cache, content) ==
  IF cache.present
  THEN LET cachedFile == Flatten(cache.json)
           cDiff      == Diff(cachedFile, content)
       IN  ObjectKeys(SelectSeq(cDiff, Truthy))
  ELSE <<>>

ExistingKeys(dest) == IF dest.present THEN ObjectKeys(dest.content) ELSE <<>>

TemplateStrings(src) == ObjectKeys(src.content)

StringsToTranslate(src, existingKeys, diffKeys) ==
  LET picked == SelectSeq(TemplateStrings(src), LAMBDA key :
                  ~Includes(existingKeys, key) \/ Includes(diffKeys, key))
  IN  [i \in 1..Len(picked) |->
         [key   |-> picked[i],
          value |-> IF src.type = "key-based"
                    THEN Lookup(src.content, picked[i])
                    ELSE picked[i]]]

UnusedStrings(existingKeys, templateStrings) ==
  SelectSeq(existingKeys, LAMBDA key : ~Includes(templateStrings, key))

RECURSIVE NewKeysFrom(_, _)
\* translatedStrings.reduce((acc, cur) => ({ ...acc, [cur.key]: cur.translated }), {})
NewKeysFrom(acc, translatedStrings) ==
  IF translatedStrings = <<>> THEN acc
  ELSE NewKeysFrom(Assign(acc, Head(translatedStrings).key,
                          Head(translatedStrings).translated),
                   Tail(translatedStrings))

NewKeys(translatedStrings) == NewKeysFrom(<<>>, translatedStrings)

ExistingTranslations(dest) == IF dest.present THEN dest.content ELSE <<>>

\* a merge that never omits the unused strings
TranslatedFile_KeepsUnused(dest, deleteUnusedStrings, unusedStrings, newKeys) ==
  Spread(ExistingTranslations(dest), newKeys)

TranslatedFile(dest, deleteUnusedStrings, unusedStrings, newKeys) ==
  Spread(Omit(ExistingTranslations(dest),
              IF deleteUnusedStrings THEN unusedStrings ELSE <<>>),
         newKeys)

\* what is stringified into the target file
NewContent(type, translatedFile) ==
  IF type = "key-based" THEN Unflatten(translatedFile) ELSE FlatJson(translatedFile)

\* a provider's translation of one value into language `to`
TranslateText(value, to) == <<to>> \o value

\* a successful translateStrings: one result per unit, in the units' order
TranslationResults(units, to) ==
  [i \in 1..Len(units) |->
     [key |-> units[i].key, value |-> units[i].value,
      translated |-> TranslateText(units[i].value, to)]]

\* translateContent before the call of translateStrings
WorkPlan(src, dest, cache) ==
  LET cDiff        == CacheDiff(cache, src.content)
      existingKeys == ExistingKeys(dest)
  IN  [cacheDiff     |-> cDiff,
       strings       |-> StringsToTranslate(src, existingKeys, cDiff),
       unusedStrings |-> UnusedStrings(existingKeys, TemplateStrings(src))]

\* a translateContent that writes the source catalog as the language cache
Outcome_CachesSource(src, dest, deleteUnusedStrings, plan, translatedStrings) ==
  LET translatedFile == TranslatedFile(dest, deleteUnusedStrings,
                          plan.unusedStrings, NewKeys(translatedStrings))
  IN  [newContent    |-> NewContent(src.type, translatedFile),
       languageCache |-> FlatJson(src.content),
       returned      |-> <<Len(translatedStrings),
                           IF deleteUnusedStrings
                           THEN Len(plan.unusedStrings) ELSE 0>>]

\* a translateContent that counts the unused strings whether or not they are
\* deleted
Outcome_CountsUnused(src, dest, deleteUnusedStrings, plan, translatedStrings) ==
  LET translatedFile == TranslatedFile(dest, deleteUnusedStrings,
                          plan.unusedStrings, NewKeys(translatedStrings))
  IN  [newContent    |-> NewContent(src.type, translatedFile),
       languageCache |-> FlatJson(translatedFile),
       returned      |-> <<Len(translatedStrings), Len(plan.unusedStrings)>>]

\* translateContent after translateStrings has returned translatedStrings
Outcome(src, dest, deleteUnusedStrings, plan, translatedStrings) ==
  LET translatedFile == TranslatedFile(dest, deleteUnusedStrings,
                          plan.unusedStrings, NewKeys(translatedStrings))
  IN  [newContent    |-> NewContent(src.type, translatedFile),
       languageCache |-> FlatJson(translatedFile),
       returned      |-> <<Len(translatedStrings),
                           IF deleteUnusedStrings
                           THEN Len(plan.unusedStrings) ELSE 0>>]

\* what translationService.translateStrings can return when it does not
\* throw; the dry-run service translates nothing and may return no result
ServiceResults(service, units, to) ==
  IF service = "dry-run"
  THEN {<<>>, TranslationResults(units, to)}
  ELSE {TranslationResults(units, to)}

-----------------------------------------------------------------------------
(***************************************************************************)
(* The files a call can find.  A key-based source or target file is a      *)
(* nested JSON object, so its flattened keys are prefix-free; the cache    *)
(* file is a copy of an earlier source file.                               *)
(***************************************************************************)

OrderedKeys == << <<"a">>, <<"a", "b">>, <<"c">> >>

Absent == <<"<absent>">>

SourceValues == { <<>>, <<"p">> }

TargetValues == { <<"old">> }

\* the catalog that holds OrderedKeys[i] with value f[i] unless f[i] is Absent
CatalogOf(f) ==
  LET idx == SelectSeq(<<1, 2, 3>>, LAMBDA i : f[i] # Absent)
  IN  [j \in 1..Len(idx) |-> [key |-> OrderedKeys[idx[j]], val |-> f[idx[j]]]]

Catalogs(values) == { CatalogOf(f) : f \in [1..3 -> values \cup {Absent}] }

IsProperPrefix(k1, k2) == Len(k1) < Len(k2) /\ SubSeq(k2, 1, Len(k1)) = k1

PrefixFree(cat) ==
  \A i, j \in 1..Len(cat) : ~IsProperPrefix(cat[i].key, cat[j].key)

\* the JSON files of a directory whose files have the given type
JsonFiles(type, values) ==
  IF type = "key-based"
  THEN { Unflatten(c) : c \in { d \in Catalogs(values) : PrefixFree(d) } }
  ELSE { FlatJson(c) : c \in Catalogs(values) }

FileTypes == {"key-based", "natural"}

Services == {"deepl", "dry-run"}

FileInit ==
  /\ fpc = "ready"
  /\ \E type \in FileTypes, del \in BOOLEAN, service \in Services :
       /\ fopts = [type |-> type, deleteUnusedStrings |-> del,
                   service |-> service, targetLang |-> "de"]
       /\ \E json \in JsonFiles(type, SourceValues) :
            sourceFile = [type |-> type, content |-> LoadContent(json, type)]
       /\ \/ destinationFile = [present |-> FALSE, content |-> <<>>]
          \/ \E json \in JsonFiles(type, TargetValues) :
               destinationFile =
                 [present |-> TRUE, content |-> LoadContent(json, type)]
       /\ \/ cacheFile = [present |-> FALSE, json |-> <<>>]
          \/ \E json \in JsonFiles(type, SourceValues) :
               cacheFile = [present |-> TRUE, json |-> json]
  /\ cacheDiff = <<>>
  /\ submitted = <<>>
  /\ translated = <<>>
  /\ written = [present |-> FALSE, json |-> <<>>]
  /\ langCache = [present |-> FALSE, json |-> <<>>]
  /\ returned = <<>>

\* translateContent up to the call of translateStrings, which throws
TranslateContentThrows ==
  /\ fpc = "ready"
  /\ fopts.service # "dry-run"
  /\ LET plan == WorkPlan(sourceFile, destinationFile, cacheFile)
     IN  /\ cacheDiff' = plan.cacheDiff
         /\ submitted' = plan.strings
  /\ fpc' = "failed"
  /\ UNCHANGED <<fopts, sourceFile, destinationFile, cacheFile, translated,
                 written, langCache, returned>>
  /\ UNCHANGED notFile

\* translateContent, translateStrings returning
TranslateContent ==
  /\ fpc = "ready"
  /\ LET plan == WorkPlan(sourceFile, destinationFile, cacheFile)
     IN  \E translatedStrings \in
             ServiceResults(fopts.service, plan.strings, fopts.targetLang) :
           LET out == Outcome(sourceFile, destinationFile,
                              fopts.deleteUnusedStrings, plan, translatedStrings)
           IN  /\ cacheDiff' = plan.cacheDiff
               /\ submitted' = plan.strings
               /\ translated' = translatedStrings
               /\ IF fopts.service # "dry-run"
                  THEN /\ written' = [present |-> TRUE, json |-> out.newContent]
                       /\ langCache' = [present |-> TRUE,
                                        json |-> out.languageCache]
                  ELSE UNCHANGED <<written, langCache>>
               /\ returned' = out.returned
  /\ fpc' = "done"
  /\ UNCHANGED <<fopts, sourceFile, destinationFile, cacheFile>>
  /\ UNCHANGED notFile

FileNext == TranslateContent \/ TranslateContentThrows


FileIdle ==
  /\ fpc = "done"
  /\ fopts = [type |-> "key-based", deleteUnusedStrings |-> FALSE,
              service |-> "deepl", targetLang |-> "de"]
  /\ sourceFile = [type |-> "key-based", content |-> <<>>]
  /\ destinationFile = [present |-> FALSE, content |-> <<>>]
  /\ cacheFile = [present |-> FALSE, json |-> <<>>]
  /\ cacheDiff = <<>>
  /\ submitted = <<>>
  /\ translated = <<>>
  /\ written = [present |-> FALSE, json |-> <<>>]
  /\ langCache = [present |-> FALSE, json |-> <<>>]
  /\ returned = <<>>

-----------------------------------------------------------------------------
(***************************************************************************)
(* translate(): one run over every target language and every source file,  *)
(* with the default directory structure and key-based files.  Between runs *)
(* the user may edit the source file.                                      *)
(***************************************************************************)

MaxRuns == 2

FileNameOrder == <<"f", "g">>

FileNames == Range(FileNameOrder)

TargetLanguages == <<"de", "fr">>

NoFile == [present |-> FALSE, json |-> <<>>]

File(json) == [present |-> TRUE, json |-> json]

\* the segments of keys that hold a space
Spaced == {"x y"}

\* k.includes('.') || k.includes(' '): a key is its segments between periods
IsInvalidKey(name) ==
  Len(name) > 1 \/ \E i \in 1..Len(name) : name[i] \in Spaced

\* the leaves of a JSON object at any depth
RECURSIVE Leaves(_)
Leaves(json) ==
  IF json = <<>> THEN {}
  ELSE (IF Head(json).leaf THEN {Head(json)} ELSE Leaves(Head(json).kids))
       \cup Leaves(Tail(json))

\* a detection that looks at the keys of the strings at any depth
DetectFileType_AnyDepth(json) ==
  IF \E p \in Leaves(json) : IsInvalidKey(p.name)
  THEN "natural" ELSE "key-based"

\* detectFileType: natural when a top-level string property has a "." or a
\* space in its key
DetectFileType(json) ==
  IF \E i \in 1..Len(json) : json[i].leaf /\ IsInvalidKey(json[i].name)
  THEN "natural" ELSE "key-based"

\* loadTranslations(directory), fileType "auto": the .json files in readdir
\* order
LoadTranslations(dir) ==
  LET names == SelectSeq(FileNameOrder, LAMBDA n : dir[n].present)
  IN  [i \in 1..Len(names) |->
         [name    |-> names[i],
          type    |-> DetectFileType(dir[names[i]].json),
          content |-> LoadContent(dir[names[i]].json,
                                  DetectFileType(dir[names[i]].json))]]

\* the keys of a natural file whose value is not the key
InconsistentKeys(file) ==
  SelectSeq(ObjectKeys(file.content), LAMBDA key : key # Lookup(file.content, key))

\* the files the check of the source files reports as inconsistent
InconsistentFiles(files) ==
  SelectSeq(files, LAMBDA f : f.type = "natural" /\ InconsistentKeys(f) # <<>>)

\* fixSourceInconsistencies: fixedContent, every key with itself as value
FixedContent(content) ==
  [i \in 1..Len(content) |-> Leaf(content[i].key, content[i].key)]

\* fixSourceInconsistencies: what it leaves in a directory it writes to, the
\* natural files of the source directory with their fixed content
FixSourceInconsistencies(source, destination) ==
  [n \in FileNames |->
     IF source[n].present /\ DetectFileType(source[n].json) = "natural"
     THEN File(FixedContent(LoadContent(source[n].json, "natural")))
     ELSE destination[n]]

\* existingFiles.find((f) => f.name === name), as a destinationFile
FindFile(files, name) ==
  IF \E i \in 1..Len(files) : files[i].name = name
  THEN [present |-> TRUE,
        content |-> files[CHOOSE i \in 1..Len(files) : files[i].name = name].content]
  ELSE [present |-> FALSE, content |-> <<>>]

\* ncp(source, destination): every file of source is copied over, the other
\* files of destination stay
Ncp(source, destination) ==
  [n \in FileNames |-> IF source[n].present THEN source[n] ELSE destination[n]]

\* the files of the language directory left after the unused ones are unlinked
DeleteUnusedFiles(dir, templates) ==
  [n \in FileNames |->
     IF dir[n].present /\ ~\E i \in 1..Len(templates) : templates[i].name = n
     THEN NoFile ELSE dir[n]]

SourceContents ==
  { <<Leaf(<<"a">>, <<"p">>)>>,
    <<Leaf(<<"a">>, <<"q">>)>>,
    <<Node(<<"a">>, <<Leaf(<<"b">>, <<"p">>)>>)>>,
    <<Leaf(<<"a", "b">>, <<"a", "b">>)>>,
    <<Leaf(<<"a", "b">>, <<"p">>)>> }

Disk == [src |-> srcDir, tgt |-> tgtDir, cache |-> cacheDir,
         langCache |-> langCacheDir]

RunInit ==
  /\ rpc = "idle"
  /\ \E del \in BOOLEAN, fix \in BOOLEAN, service \in Services,
        supported \in {{"de", "fr"}, {"fr"}} :
       ropts = [deleteUnusedStrings |-> del, fixInconsistencies |-> fix,
                service |-> service, supported |-> supported]
  /\ \E f \in SourceContents, g \in {NoFile, File(<<Leaf(<<"c">>, <<"p">>)>>)} :
       srcDir = [n \in FileNames |-> IF n = "f" THEN File(f) ELSE g]
  /\ \E f \in {NoFile, File(<<Leaf(<<"a">>, <<"p">>)>>)} :
       cacheDir = [n \in FileNames |-> IF n = "f" THEN f ELSE NoFile]
  /\ \E def \in {NoFile, File(<<Leaf(<<"a">>, <<"old">>)>>),
                 File(<<Node(<<"a">>, <<Leaf(<<"b">>, <<"old">>)>>)>>)},
        deg \in {NoFile, File(<<Leaf(<<"c">>, <<"old">>)>>)} :
       tgtDir = [l \in Range(TargetLanguages) |->
                   [n \in FileNames |->
                      IF l = "de" THEN (IF n = "f" THEN def ELSE deg)
                      ELSE NoFile]]
  /\ langCacheDir = [l \in Range(TargetLanguages) |-> [n \in FileNames |-> NoFile]]
  /\ templateFiles = <<>>
  /\ existingFiles = <<>>
  /\ langIdx = 1
  /\ fileIdx = 1
  /\ totalAddedTranslations = 0
  /\ totalRemovedTranslations = 0
  /\ runs = 0
  /\ calls = <<>>
  /\ cleanSince = FALSE
  /\ rerun = FALSE
  /\ diskAtStart = Disk
  /\ thrownIn = ""
  /\ initError = FALSE

RunIdle ==
  /\ rpc = "exited"
  /\ ropts = [deleteUnusedStrings |-> FALSE, fixInconsistencies |-> FALSE,
              service |-> "deepl", supported |-> {}]
  /\ srcDir = [n \in FileNames |-> NoFile]
  /\ cacheDir = [n \in FileNames |-> NoFile]
  /\ tgtDir = [l \in Range(TargetLanguages) |-> [n \in FileNames |-> NoFile]]
  /\ langCacheDir = [l \in Range(TargetLanguages) |-> [n \in FileNames |-> NoFile]]
  /\ templateFiles = <<>>
  /\ existingFiles = <<>>
  /\ langIdx = 1
  /\ fileIdx = 1
  /\ totalAddedTranslations = 0
  /\ totalRemovedTranslations = 0
  /\ runs = MaxRuns
  /\ calls = <<>>
  /\ cleanSince = FALSE
  /\ rerun = FALSE
  /\ diskAtStart = Disk
  /\ thrownIn = ""
  /\ initError = FALSE

\* the user edits the source file between two runs
EditSource ==
  /\ rpc \in {"idle", "exited"}
  /\ runs >= 1
  /\ runs < MaxRuns
  /\ \E f \in SourceContents :
       /\ srcDir["f"] # File(f)
       /\ srcDir' = [srcDir EXCEPT !["f"] = File(f)]
  /\ cleanSince' = FALSE
  /\ UNCHANGED <<diskAtStart, thrownIn, initError, rpc, ropts, tgtDir, cacheDir,
                 langCacheDir, templateFiles, existingFiles, langIdx, fileIdx,
                 totalAddedTranslations, totalRemovedTranslations, runs, calls,
                 rerun>>
  /\ UNCHANGED notRun

\* a directory of the cache exists once ncp or a run has put a file in it
DirExists(dir) == \E n \in FileNames : dir[n].present

\* fixSourceInconsistencies is called
FixRuns ==
  /\ ropts.fixInconsistencies
  /\ InconsistentFiles(LoadTranslations(srcDir)) # <<>>

\* fixSourceInconsistencies writes into a cache directory that does not exist
FixThrows == FixRuns /\ ~DirExists(cacheDir)

\* fixSourceInconsistencies up to its first write into the cache directory:
\* the first natural file of the source directory is written
FixFirstSource(source) ==
  LET natural == SelectSeq(FileNameOrder, LAMBDA n :
                   source[n].present /\ DetectFileType(source[n].json) = "natural")
  IN  [n \in FileNames |->
         IF natural # <<>> /\ n = Head(natural)
         THEN File(FixedContent(LoadContent(source[n].json, "natural")))
         ELSE source[n]]

\* translate() up to the loop over the target languages: the source files
\* are loaded, the service is initialized, the inconsistent natural files are
\* fixed when asked to
StartRun ==
  /\ rpc \in {"idle", "exited"}
  /\ runs < MaxRuns
  /\ rpc' = "langs"
  /\ runs' = runs + 1
  /\ templateFiles' = LoadTranslations(srcDir)
  /\ existingFiles' = <<>>
  /\ langIdx' = 1
  /\ fileIdx' = 1
  /\ totalAddedTranslations' = 0
  /\ totalRemovedTranslations' = 0
  /\ calls' = <<>>
  /\ rerun' = cleanSince
  /\ cleanSince' = FALSE
  /\ diskAtStart' = Disk
  /\ thrownIn' = ""
  /\ initError' = FALSE
  /\ ~FixThrows
  /\ IF FixRuns
     THEN /\ srcDir' = FixSourceInconsistencies(srcDir, srcDir)
          /\ cacheDir' = FixSourceInconsistencies(srcDir, cacheDir)
     ELSE UNCHANGED <<srcDir, cacheDir>>
  /\ UNCHANGED <<ropts, tgtDir, langCacheDir>>
  /\ UNCHANGED notRun

\* a translate() that initializes the service after the inconsistent source
\* files are fixed
StartRunInitializeThrows_AfterFix ==
  /\ rpc \in {"idle", "exited"}
  /\ runs < MaxRuns
  /\ ropts.service # "dry-run"
  /\ rpc' = "exited"
  /\ runs' = runs + 1
  /\ templateFiles' = LoadTranslations(srcDir)
  /\ existingFiles' = <<>>
  /\ langIdx' = 1
  /\ fileIdx' = 1
  /\ totalAddedTranslations' = 0
  /\ totalRemovedTranslations' = 0
  /\ calls' = <<>>
  /\ rerun' = cleanSince
  /\ cleanSince' = FALSE
  /\ diskAtStart' = Disk
  /\ thrownIn' = ""
  /\ initError' = TRUE
  /\ IF FixRuns /\ ~FixThrows
     THEN /\ srcDir' = FixSourceInconsistencies(srcDir, srcDir)
          /\ cacheDir' = FixSourceInconsistencies(srcDir, cacheDir)
     ELSE UNCHANGED <<srcDir, cacheDir>>
  /\ UNCHANGED <<ropts, tgtDir, langCacheDir>>
  /\ UNCHANGED notRun

\* translationService.initialize throws: the catch handler exits the process
StartRunInitializeThrows ==
  /\ rpc \in {"idle", "exited"}
  /\ runs < MaxRuns
  /\ ropts.service # "dry-run"
  /\ rpc' = "exited"
  /\ runs' = runs + 1
  /\ templateFiles' = LoadTranslations(srcDir)
  /\ existingFiles' = <<>>
  /\ langIdx' = 1
  /\ fileIdx' = 1
  /\ totalAddedTranslations' = 0
  /\ totalRemovedTranslations' = 0
  /\ calls' = <<>>
  /\ rerun' = cleanSince
  /\ cleanSince' = FALSE
  /\ diskAtStart' = Disk
  /\ thrownIn' = ""
  /\ initError' = TRUE
  /\ UNCHANGED <<ropts, srcDir, tgtDir, cacheDir, langCacheDir>>
  /\ UNCHANGED notRun

\* a service that supports every language
SupportsLanguage_Always(supported, language) == TRUE

\* translationService.supportsLanguage(language)
SupportsLanguage(supported, language) == language \in supported

\* fixSourceInconsistencies throws on its first write into the cache
\* directory: the catch handler exits the process
StartRunFixThrows ==
  /\ rpc \in {"idle", "exited"}
  /\ runs < MaxRuns
  /\ FixThrows
  /\ rpc' = "exited"
  /\ runs' = runs + 1
  /\ templateFiles' = LoadTranslations(srcDir)
  /\ existingFiles' = <<>>
  /\ langIdx' = 1
  /\ fileIdx' = 1
  /\ totalAddedTranslations' = 0
  /\ totalRemovedTranslations' = 0
  /\ calls' = <<>>
  /\ rerun' = cleanSince
  /\ cleanSince' = FALSE
  /\ diskAtStart' = Disk
  /\ thrownIn' = ""
  /\ initError' = FALSE
  /\ srcDir' = FixFirstSource(srcDir)
  /\ UNCHANGED <<ropts, tgtDir, cacheDir, langCacheDir>>
  /\ UNCHANGED notRun

\* a language the service does not support: continue
SkipLanguage ==
  /\ rpc = "langs"
  /\ langIdx <= Len(TargetLanguages)
  /\ ~SupportsLanguage(ropts.supported, TargetLanguages[langIdx])
  /\ langIdx' = langIdx + 1
  /\ UNCHANGED <<diskAtStart, thrownIn, initError, rpc, ropts, srcDir, tgtDir, cacheDir, langCacheDir,
                 templateFiles, existingFiles, fileIdx, totalAddedTranslations,
                 totalRemovedTranslations, runs, calls, cleanSince, rerun>>
  /\ UNCHANGED notRun

\* a supported language: load its files, unlink those no source file names
BeginLanguage ==
  /\ rpc = "langs"
  /\ langIdx <= Len(TargetLanguages)
  /\ SupportsLanguage(ropts.supported, TargetLanguages[langIdx])
  /\ LET language == TargetLanguages[langIdx]
     IN  /\ existingFiles' = LoadTranslations(tgtDir[language])
         /\ tgtDir' = IF ropts.deleteUnusedStrings
                      THEN [tgtDir EXCEPT ![language] =
                              DeleteUnusedFiles(tgtDir[language], templateFiles)]
                      ELSE tgtDir
  /\ fileIdx' = 1
  /\ rpc' = "files"
  /\ UNCHANGED <<diskAtStart, thrownIn, initError, ropts, srcDir, cacheDir, langCacheDir, templateFiles, langIdx,
                 totalAddedTranslations, totalRemovedTranslations, runs, calls,
                 cleanSince, rerun>>
  /\ UNCHANGED notRun

\* one turn of the loop over templateFiles: translateContent returns
TranslateFile ==
  /\ rpc = "files"
  /\ fileIdx <= Len(templateFiles)
  /\ LET language     == TargetLanguages[langIdx]
         templateFile == templateFiles[fileIdx]
         dest         == FindFile(existingFiles, templateFile.name)
         plan         == WorkPlan(templateFile, dest, cacheDir[templateFile.name])
     IN  \E translatedStrings \in
             ServiceResults(ropts.service, plan.strings, language) :
           LET out == Outcome(templateFile, dest, ropts.deleteUnusedStrings,
                              plan, translatedStrings)
           IN  /\ calls' = Append(calls, [lang |-> language,
                                          file |-> templateFile.name,
                                          strings |-> plan.strings,
                                          persisted |-> ropts.service # "dry-run",
                                          results |-> translatedStrings,
                                          unused |-> plan.unusedStrings,
                                          cacheDiff |-> plan.cacheDiff,
                                          threw |-> FALSE])
               /\ IF ropts.service # "dry-run"
                  THEN /\ tgtDir' = [tgtDir EXCEPT ![language][templateFile.name] =
                                       File(out.newContent)]
                       /\ langCacheDir' =
                            [langCacheDir EXCEPT ![language][templateFile.name] =
                               File(out.languageCache)]
                  ELSE UNCHANGED <<tgtDir, langCacheDir>>
               /\ totalAddedTranslations' = totalAddedTranslations + out.returned[1]
               /\ totalRemovedTranslations' =
                    totalRemovedTranslations + out.returned[2]
  /\ fileIdx' = fileIdx + 1
  /\ UNCHANGED <<diskAtStart, thrownIn, initError, rpc, ropts, srcDir, cacheDir, templateFiles, existingFiles,
                 langIdx, runs, cleanSince, rerun>>
  /\ UNCHANGED notRun

\* a translate() that gives up the language and goes on with the next one
TranslateFileThrows_NextLanguage ==
  /\ rpc = "files"
  /\ fileIdx <= Len(templateFiles)
  /\ ropts.service # "dry-run"
  /\ LET language     == TargetLanguages[langIdx]
         templateFile == templateFiles[fileIdx]
         dest         == FindFile(existingFiles, templateFile.name)
         plan         == WorkPlan(templateFile, dest, cacheDir[templateFile.name])
     IN  /\ calls' = Append(calls, [lang |-> language,
                                    file |-> templateFile.name,
                                    strings |-> plan.strings,
                                    persisted |-> FALSE,
                                    results |-> <<>>,
                                    unused |-> plan.unusedStrings,
                                    cacheDiff |-> plan.cacheDiff,
                                    threw |-> TRUE])
         /\ thrownIn' = language
  /\ rpc' = "langs"
  /\ langIdx' = langIdx + 1
  /\ UNCHANGED <<diskAtStart, initError, ropts, srcDir, tgtDir, cacheDir, langCacheDir,
                 templateFiles, existingFiles, fileIdx, totalAddedTranslations,
                 totalRemovedTranslations, runs, cleanSince, rerun>>
  /\ UNCHANGED notRun

\* a translateContent that writes the merged target file before the error
\* of translateStrings leaves it
TranslateFileThrows_AfterWrite ==
  /\ rpc = "files"
  /\ fileIdx <= Len(templateFiles)
  /\ ropts.service # "dry-run"
  /\ LET language     == TargetLanguages[langIdx]
         templateFile == templateFiles[fileIdx]
         dest         == FindFile(existingFiles, templateFile.name)
         plan         == WorkPlan(templateFile, dest, cacheDir[templateFile.name])
         out          == Outcome(templateFile, dest, ropts.deleteUnusedStrings,
                                 plan, TranslationResults(plan.strings, language))
     IN  /\ calls' = Append(calls, [lang |-> language,
                                    file |-> templateFile.name,
                                    strings |-> plan.strings,
                                    persisted |-> FALSE,
                                    results |-> <<>>,
                                    unused |-> plan.unusedStrings,
                                    cacheDiff |-> plan.cacheDiff,
                                    threw |-> TRUE])
         /\ thrownIn' = language
         /\ tgtDir' = [tgtDir EXCEPT ![language][templateFile.name] =
                         File(out.newContent)]
  /\ rpc' = "exited"
  /\ UNCHANGED <<diskAtStart, initError, ropts, srcDir, cacheDir, langCacheDir,
                 templateFiles, existingFiles, langIdx, fileIdx,
                 totalAddedTranslations, totalRemovedTranslations, runs,
                 cleanSince, rerun>>
  /\ UNCHANGED notRun

\* a translate() that copies the source directory into the cache on its way
\* out
TranslateFileThrows_CachesSource ==
  /\ rpc = "files"
  /\ fileIdx <= Len(templateFiles)
  /\ ropts.service # "dry-run"
  /\ LET language     == TargetLanguages[langIdx]
         templateFile == templateFiles[fileIdx]
         dest         == FindFile(existingFiles, templateFile.name)
         plan         == WorkPlan(templateFile, dest, cacheDir[templateFile.name])
     IN  /\ calls' = Append(calls, [lang |-> language,
                                    file |-> templateFile.name,
                                    strings |-> plan.strings,
                                    persisted |-> FALSE,
                                    results |-> <<>>,
                                    unused |-> plan.unusedStrings,
                                    cacheDiff |-> plan.cacheDiff,
                                    threw |-> TRUE])
         /\ thrownIn' = language
  /\ cacheDir' = Ncp(srcDir, cacheDir)
  /\ rpc' = "exited"
  /\ UNCHANGED <<diskAtStart, initError, ropts, srcDir, tgtDir, langCacheDir, templateFiles,
                 existingFiles, langIdx, fileIdx, totalAddedTranslations,
                 totalRemovedTranslations, runs, cleanSince, rerun>>
  /\ UNCHANGED notRun

\* translateStrings throws inside translateContent: the error leaves
\* translate() and the catch handler exits the process
TranslateFileThrows ==
  /\ rpc = "files"
  /\ fileIdx <= Len(templateFiles)
  /\ ropts.service # "dry-run"
  /\ LET language     == TargetLanguages[langIdx]
         templateFile == templateFiles[fileIdx]
         dest         == FindFile(existingFiles, templateFile.name)
         plan         == WorkPlan(templateFile, dest, cacheDir[templateFile.name])
     IN  /\ calls' = Append(calls, [lang |-> language,
                                    file |-> templateFile.name,
                                    strings |-> plan.strings,
                                    persisted |-> FALSE,
                                    results |-> <<>>,
                                    unused |-> plan.unusedStrings,
                                    cacheDiff |-> plan.cacheDiff,
                                    threw |-> TRUE])
         /\ thrownIn' = language
  /\ rpc' = "exited"
  /\ UNCHANGED <<diskAtStart, initError, ropts, srcDir, tgtDir, cacheDir, langCacheDir, templateFiles,
                 existingFiles, langIdx, fileIdx, totalAddedTranslations,
                 totalRemovedTranslations, runs, cleanSince, rerun>>
  /\ UNCHANGED notRun

\* the loop over templateFiles is over: next language
EndLanguage ==
  /\ rpc = "files"
  /\ fileIdx > Len(templateFiles)
  /\ langIdx' = langIdx + 1
  /\ rpc' = "langs"
  /\ UNCHANGED <<diskAtStart, thrownIn, initError, ropts, srcDir, tgtDir, cacheDir, langCacheDir, templateFiles,
                 existingFiles, fileIdx, totalAddedTranslations,
                 totalRemovedTranslations, runs, calls, cleanSince, rerun>>
  /\ UNCHANGED notRun

\* after the last language: the source directory is copied into the cache
FinishRun ==
  /\ rpc = "langs"
  /\ langIdx > Len(TargetLanguages)
  /\ cacheDir' = IF ropts.service # "dry-run" THEN Ncp(srcDir, cacheDir)
                 ELSE cacheDir
  /\ rpc' = "idle"
  /\ cleanSince' = TRUE
  /\ UNCHANGED <<diskAtStart, thrownIn, initError, ropts, srcDir, tgtDir, langCacheDir, templateFiles,
                 existingFiles, langIdx, fileIdx, totalAddedTranslations,
                 totalRemovedTranslations, runs, calls, rerun>>
  /\ UNCHANGED notRun



RunNext ==
  \/ EditSource
  \/ StartRun
  \/ StartRunInitializeThrows
  \/ StartRunFixThrows
  \/ SkipLanguage
  \/ BeginLanguage
  \/ TranslateFile
  \/ TranslateFileThrows
  \/ EndLanguage
  \/ FinishRun

-----------------------------------------------------------------------------
(***************************************************************************)
(* DeepL.translateStrings and DeepL.runTranslation: the loop over the      *)
(* batches and the retry of a rate-limited batch.                          *)
(***************************************************************************)

MaxUnits == 3

MaxBatchSize == 2

\* how many batches of one call are followed
MaxBatches == 4

TriesLeftDefault == 5

AllUnits ==
  [n \in 1..MaxUnits |->
     [key |-> <<"k", ToString(n)>>, value |-> <<"v", ToString(n)>>]]

\* what initialize can store from the third field of the config string
BatchSizes == (0 - 1)..MaxBatchSize

Min(x, y) == IF x < y THEN x ELSE y

Max(x, y) == IF x < y THEN y ELSE x

\* Array.prototype.slice(start, end), with 0-based indices that may be negative
Slice(arr, start, end) ==
  LET len  == Len(arr)
      from == IF start < 0 THEN Max(len + start, 0) ELSE Min(start, len)
      to   == IF end < 0 THEN Max(len + end, 0) ELSE Min(end, len)
  IN  SubSeq(arr, from + 1, to)

\* the responses fetch can resolve with
Responses ==
  { [ok |-> TRUE, status |-> 200, text |-> "translations"] }
  \cup [ok : {FALSE}, status : {429, 500}, text : {"", "quota"}]

\* a retry condition that allows one call more than triesLeft
ShouldRetry_OneMore(response, tries) == response.status = 429 /\ tries >= 0

\* a retry condition that does not look at the status
ShouldRetry_AnyStatus(response, tries) == tries > 0

\* runTranslation: response.status === 429 && triesLeft > 0
ShouldRetry(response, tries) == response.status = 429 /\ tries > 0

\* the Error runTranslation throws
ErrorOf(response) ==
  [status |-> response.status,
   body   |-> IF response.text = "" THEN "Empty body" ELSE response.text]

NoResponse == [ok |-> TRUE, status |-> 0, text |-> ""]

NoError == [status |-> 0, body |-> ""]

BatchInit ==
  /\ bpc = "loop"
  /\ batchSize \in BatchSizes
  /\ \E n \in 0..MaxUnits : strings = SubSeq(AllUnits, 1, n)
  /\ loopI = 0
  /\ chunk = <<>>
  /\ triesLeft = TriesLeftDefault
  /\ responses = <<>>
  /\ result = [returned |-> FALSE, value |-> <<>>]
  /\ error = NoError
  /\ batches = <<>>
  /\ retries = 0
  /\ lastResponse = NoResponse

BatchIdle ==
  /\ bpc = "done"
  /\ batchSize = 1
  /\ strings = <<>>
  /\ loopI = 0
  /\ chunk = <<>>
  /\ triesLeft = TriesLeftDefault
  /\ responses = <<>>
  /\ result = [returned |-> TRUE, value |-> <<>>]
  /\ error = NoError
  /\ batches = <<>>
  /\ retries = 0
  /\ lastResponse = NoResponse

\* translateStrings: the loop condition holds, runTranslation(chunk) is called
NextBatch ==
  /\ bpc = "loop"
  /\ loopI < Len(strings)
  /\ Len(batches) < MaxBatches
  /\ chunk' = Slice(strings, loopI, loopI + batchSize)
  /\ batches' = Append(batches, chunk')
  /\ triesLeft' = TriesLeftDefault
  /\ retries' = 0
  /\ bpc' = "fetch"
  /\ UNCHANGED <<batchSize, strings, loopI, responses, result, error, lastResponse>>
  /\ UNCHANGED notBatch

\* translateStrings: the loop is over, responses is returned
ReturnResponses ==
  /\ bpc = "loop"
  /\ loopI >= Len(strings)
  /\ result' = [returned |-> TRUE, value |-> responses]
  /\ bpc' = "done"
  /\ UNCHANGED <<batchSize, strings, loopI, chunk, triesLeft, responses, error,
                 batches, retries, lastResponse>>
  /\ UNCHANGED notBatch

\* runTranslation: the response is ok, the results of the chunk are pushed
FetchOk ==
  /\ bpc = "fetch"
  /\ \E response \in Responses :
       /\ response.ok
       /\ lastResponse' = response
  /\ responses' = responses \o TranslationResults(chunk, "de")
  /\ loopI' = loopI + batchSize
  /\ bpc' = "loop"
  /\ UNCHANGED <<batchSize, strings, chunk, triesLeft, result, error, batches,
                 retries>>
  /\ UNCHANGED notBatch

\* runTranslation: rate-limited with tries left, it calls itself
FetchRetry ==
  /\ bpc = "fetch"
  /\ \E response \in Responses :
       /\ ~response.ok
       /\ ShouldRetry(response, triesLeft)
       /\ lastResponse' = response
  /\ triesLeft' = triesLeft - 1
  /\ retries' = retries + 1
  /\ UNCHANGED <<bpc, batchSize, strings, loopI, chunk, responses, result, error,
                 batches>>
  /\ UNCHANGED notBatch

\* runTranslation: any other response that is not ok, it throws; the error
\* leaves translateStrings with it
FetchThrows ==
  /\ bpc = "fetch"
  /\ \E response \in Responses :
       /\ ~response.ok
       /\ ~ShouldRetry(response, triesLeft)
       /\ lastResponse' = response
       /\ error' = ErrorOf(response)
  /\ bpc' = "thrown"
  /\ UNCHANGED <<batchSize, strings, loopI, chunk, triesLeft, responses, result,
                 batches, retries>>
  /\ UNCHANGED notBatch

BatchNext ==
  \/ NextBatch
  \/ ReturnResponses
  \/ FetchOk
  \/ FetchRetry
  \/ FetchThrows

-----------------------------------------------------------------------------
(***************************************************************************)
(* The matcher engine: replaceInterpolations and reInsertInterpolations.   *)
(* A string is a sequence of characters; the opening and the closing tag   *)
(* of a marker are one element each.                                       *)
(***************************************************************************)

MaxLen == 5

SpanOpen == "<span translate=\"no\">"

SpanClose == "</span>"

Chars == {"a", "%", "0"}

Alphabet == Chars \cup {SpanOpen, SpanClose}

\* the replacer the services pass to the matcher: the marker of an index
XmlStyleReplacer(index) == <<SpanOpen, ToString(index), SpanClose>>

Matchers == {"sprintf", "i18next", "icu"}

MaxParts == 3

MaxCases == 2

\* the strings over the alphabet in which no tag is cut in two by a match
\* of the sprintf pattern
InputStrings ==
  { s \in UNION { [1..n -> Alphabet] : n \in 0..MaxLen } :
      \A j \in 1..Len(s) : (s[j] = "%" /\ j < Len(s)) => s[j + 1] \in Chars }

\* String.prototype.indexOf, 1-based, 0 when pat does not occur
IndexOf(s, pat) ==
  LET at == { j \in 1..(Len(s) - Len(pat) + 1) :
                SubSeq(s, j, j + Len(pat) - 1) = pat }
  IN  IF at = {} THEN 0 ELSE CHOOSE j \in at : \A k \in at : j <= k

\* String.prototype.replace with a string pattern: the first occurrence only
ReplaceFirst(s, pat, by) ==
  LET j == IndexOf(s, pat)
  IN  IF j = 0 THEN s
      ELSE SubSeq(s, 1, j - 1) \o by \o SubSeq(s, j + Len(pat), Len(s))

\* the matches of the sprintf pattern, a percent sign and the character after
\* it, from left to right
RECURSIVE SprintfMatches(_, _)
SprintfMatches(s, pos) ==
  IF pos >= Len(s) THEN <<>>
  ELSE IF s[pos] = "%"
       THEN <<SubSeq(s, pos, pos + 1)>> \o SprintfMatches(s, pos + 2)
       ELSE SprintfMatches(s, pos + 1)

MatchSprintf(s) ==
  LET matches == SprintfMatches(s, 1)
  IN  [n \in 1..Len(matches) |->
         [from |-> matches[n], to |-> XmlStyleReplacer(n - 1)]]

(* i18next: the tokens "{{" and "}}" are the double braces, "$t(" and ")"   *)
(* the delimiters of a function call.                                      *)
I18NextChars == {"a", "{{", "}}", "$t(", ")"}

\* the first closing double brace with at least one token before it, 0 if none
CloseBraces(s, pos) ==
  LET at == { q \in (pos + 2)..Len(s) : s[q] = "}}" }
  IN  IF at = {} THEN 0 ELSE CHOOSE q \in at : \A k \in at : q <= k

\* the parenthesis that balances the "$t(" at pos, 0 if none
RECURSIVE CloseParen(_, _, _)
CloseParen(s, q, depth) ==
  IF q > Len(s) THEN 0
  ELSE IF s[q] = "$t(" THEN CloseParen(s, q + 1, depth + 1)
  ELSE IF s[q] = ")"
       THEN IF depth = 1 THEN q ELSE CloseParen(s, q + 1, depth - 1)
       ELSE CloseParen(s, q + 1, depth)

\* a scan that knows the double braces only
RECURSIVE I18NextMatches_BracesOnly(_, _)
I18NextMatches_BracesOnly(s, pos) ==
  IF pos > Len(s) THEN <<>>
  ELSE LET q == IF s[pos] = "{{" THEN CloseBraces(s, pos) ELSE 0
       IN  IF q > pos + 1
           THEN <<SubSeq(s, pos, q)>> \o I18NextMatches_BracesOnly(s, q + 1)
           ELSE I18NextMatches_BracesOnly(s, pos + 1)

RECURSIVE I18NextMatches(_, _)
I18NextMatches(s, pos) ==
  IF pos > Len(s) THEN <<>>
  ELSE LET q == IF s[pos] = "{{" THEN CloseBraces(s, pos)
                ELSE IF s[pos] = "$t(" THEN CloseParen(s, pos + 1, 1)
                ELSE 0
       IN  IF q > pos + 1
           THEN <<SubSeq(s, pos, q)>> \o I18NextMatches(s, q + 1)
           ELSE I18NextMatches(s, pos + 1)

MatchI18Next(s) ==
  LET matches == I18NextMatches(s, 1)
  IN  [n \in 1..Len(matches) |->
         [from |-> matches[n], to |-> XmlStyleReplacer(n - 1)]]

(* ICU: the tokens "{" and "}" are the braces, "P" is the text             *)
(* ", plural, " (a keyword after an argument name, literal text elsewhere),*)
(* "a" and "0" are characters an argument name or a case key can be made   *)
(* of, and "\n" is a line terminator, which is white space inside braces.  *)
IcuChars == {"a", "0", "{", "}", "P", "\n"}

IdChars == {"a", "0"}

WhiteSpace == {"\n"}

StringPart(text) == [type |-> "string", text |-> text, cases |-> <<>>]

ArgumentPart == [type |-> "argument", text |-> <<>>, cases |-> <<>>]

PluralPart(cases) == [type |-> "plural", text |-> <<>>, cases |-> cases]

SyntaxError == [ok |-> FALSE, parts |-> <<>>, pos |-> 0]

\* the position after the run of characters of set that starts at pos
RECURSIVE SkipWhile(_, _, _)
SkipWhile(s, pos, set) ==
  IF pos <= Len(s) /\ s[pos] \in set THEN SkipWhile(s, pos + 1, set) ELSE pos

\* str:char+ { return str.join('') }: adjacent characters are one string
AppendChar(parts, c) ==
  IF parts # <<>> /\ parts[Len(parts)].type = "string"
  THEN [parts EXCEPT ![Len(parts)] = StringPart(@.text \o <<c>>)]
  ELSE Append(parts, StringPart(<<c>>))

RECURSIVE ParseTokens(_, _, _)
RECURSIVE ParseStructured(_, _)
RECURSIVE ParseCases(_, _, _)
RECURSIVE AfterStructured(_, _, _)
RECURSIVE AfterCaseTokens(_, _, _)

\* token*: stops at the end of the input and at a closing brace
ParseTokens(s, pos, parts) ==
  IF pos > Len(s) \/ s[pos] = "}" THEN [ok |-> TRUE, parts |-> parts, pos |-> pos]
  ELSE IF s[pos] = "{" THEN AfterStructured(s, parts, ParseStructured(s, pos))
  ELSE ParseTokens(s, pos + 1, AppendChar(parts, s[pos]))

\* token* goes on after an argument or a plural; a brace that opens neither
\* is a SyntaxError
AfterStructured(s, parts, t) ==
  IF t.ok THEN ParseTokens(s, t.pos, parts \o t.parts) ELSE SyntaxError

\* the plural whose cases are c: at least one case, then the closing brace
PluralOf(s, c) ==
  LET p4 == SkipWhile(s, c.pos, WhiteSpace)
  IN  IF c.ok /\ c.parts # <<>> /\ p4 <= Len(s) /\ s[p4] = "}"
      THEN [ok |-> TRUE, parts |-> <<PluralPart(c.parts)>>, pos |-> p4 + 1]
      ELSE SyntaxError

\* argument and plural / select, s[pos] is the opening brace
ParseStructured(s, pos) ==
  LET p1 == SkipWhile(s, pos + 1, WhiteSpace)
      p2 == SkipWhile(s, p1, IdChars)
      p3 == SkipWhile(s, p2, WhiteSpace)
  IN  IF p2 = p1 \/ p3 > Len(s) THEN SyntaxError
      ELSE IF s[p3] = "}"
           THEN [ok |-> TRUE, parts |-> <<ArgumentPart>>, pos |-> p3 + 1]
      ELSE IF s[p3] = "P" THEN PluralOf(s, ParseCases(s, p3 + 1, <<>>))
      ELSE SyntaxError

\* pluralCase+: a key and the tokens of the case in braces; white space
\* before a brace that opens the body is dropped
ParseCases(s, pos, cases) ==
  LET p1 == SkipWhile(s, pos, WhiteSpace)
      p2 == SkipWhile(s, p1, IdChars)
      p3 == SkipWhile(s, p2, WhiteSpace)
      b1 == SkipWhile(s, p3 + 1, WhiteSpace)
  IN  IF p2 > p1 /\ p3 <= Len(s) /\ s[p3] = "{"
      THEN AfterCaseTokens(s, cases,
             ParseTokens(s, IF b1 <= Len(s) /\ s[b1] = "{" THEN b1 ELSE p3 + 1,
                         <<>>))
      ELSE [ok |-> TRUE, parts |-> cases, pos |-> pos]

\* the closing brace of a case, then the next case
AfterCaseTokens(s, cases, body) ==
  IF body.ok /\ body.pos <= Len(s)
  THEN ParseCases(s, body.pos + 1, Append(cases, [tokens |-> body.parts]))
  ELSE SyntaxError

\* parse of messageformat-parser: the tokens of the message; a brace that
\* opens or closes no argument is a SyntaxError
Parse(s) ==
  LET r == ParseTokens(s, 1, <<>>)
  IN  IF r.ok /\ r.pos > Len(s) THEN r ELSE SyntaxError

\* the elements of the regular expression: an escaped character, which
\* matches itself, and the group (.*)
Literal(c) == [kind |-> "literal", char |-> c]

AnyGroup == [kind |-> "group", char |-> ""]

Escaped(text) == [n \in 1..Len(text) |-> Literal(text[n])]

\* replace(/(\(\.\*\)){2,}/g, '(.*)')
\* the expression with its groups left as written
CollapseGroups_Keep(re) == re

RECURSIVE CollapseGroups(_)
CollapseGroups(re) ==
  IF Len(re) < 2 THEN re
  ELSE IF re[1] = AnyGroup /\ re[2] = AnyGroup THEN CollapseGroups(Tail(re))
  ELSE <<re[1]>> \o CollapseGroups(Tail(re))

RECURSIVE NestedIcuMatcher(_)
RECURSIVE WriteTokens(_)
RECURSIVE WriteCases(_)

WriteCases(cases) ==
  IF cases = <<>> THEN <<>>
  ELSE (IF Head(cases).tokens # <<>>
        THEN <<AnyGroup>> \o NestedIcuMatcher(Head(cases).tokens) \o <<AnyGroup>>
        ELSE <<>>) \o WriteCases(Tail(cases))

WriteTokens(part) ==
  IF part.cases # <<>> THEN WriteCases(part.cases) ELSE <<AnyGroup>>

RECURSIVE JoinParts(_)
JoinParts(parts) ==
  IF parts = <<>> THEN <<>>
  ELSE (IF Head(parts).type = "string" THEN Escaped(Head(parts).text)
        ELSE WriteTokens(Head(parts))) \o JoinParts(Tail(parts))

NestedIcuMatcher(parts) == CollapseGroups(JoinParts(parts))

NoMatch == [ok |-> FALSE, groups |-> <<>>]

\* the characters from pos on that a dot matches: up to a line terminator
DotRun(s, pos) == SkipWhile(s, pos, IcuChars \ WhiteSpace) - pos

\* the backtracking match of re[i..] at pos: a group takes the longest text
\* after which the rest of the expression matches
RECURSIVE MatchFrom(_, _, _, _)
MatchFrom(re, i, s, pos) ==
  IF i > Len(re) THEN [ok |-> TRUE, groups |-> <<>>]
  ELSE IF re[i].kind = "literal"
       THEN IF pos <= Len(s) /\ s[pos] = re[i].char
            THEN MatchFrom(re, i + 1, s, pos + 1)
            ELSE NoMatch
       ELSE LET lens == { n \in 0..DotRun(s, pos) :
                            MatchFrom(re, i + 1, s, pos + n).ok }
            IN  IF lens = {} THEN NoMatch
                ELSE LET n == CHOOSE k \in lens : \A l \in lens : l <= k
                     IN  [ok |-> TRUE,
                          groups |-> <<SubSeq(s, pos, pos + n - 1)>> \o
                                     MatchFrom(re, i + 1, s, pos + n).groups]

\* input.match(regex) without flags: the match at the leftmost position
\* that has one, null (NoMatch) if there is none
RegExpMatch(s, re) ==
  LET at == { p \in 1..(Len(s) + 1) : MatchFrom(re, 1, s, p).ok }
  IN  IF at = {} THEN NoMatch
      ELSE MatchFrom(re, 1, s, CHOOSE p \in at : \A k \in at : p <= k)

\* matchIcu throws what parse throws
MatchIcuThrows(s) == ~Parse(s).ok

\* (matches || []).slice(1).map(...)
MatchIcu(s) ==
  LET regex   == NestedIcuMatcher(Parse(s).parts)
      matches == RegExpMatch(s, regex).groups
  IN  [n \in 1..Len(matches) |->
         [from |-> matches[n], to |-> XmlStyleReplacer(n - 1)]]

MatchThrows(m, s) == m = "icu" /\ MatchIcuThrows(s)

Match(m, s) ==
  IF m = "sprintf" THEN MatchSprintf(s)
  ELSE IF m = "i18next" THEN MatchI18Next(s)
  ELSE MatchIcu(s)

\* the strings of at most len characters of chars
StringsOver(chars, len) == UNION { [1..n -> chars] : n \in 0..len }

RECURSIVE Concat(_)
Concat(ps) == IF ps = <<>> THEN <<>> ELSE Head(ps) \o Concat(Tail(ps))

\* the pieces longer inputs are made of: a character of text or a placeholder
Pieces(m) ==
  IF m = "sprintf" THEN {<<"a">>, <<"%", "a">>, <<"%", "0">>}
  ELSE IF m = "i18next"
       THEN {<<"a">>, <<"{{", "a", "}}">>, <<"$t(", "a", ")">>,
             <<"$t(", "{{", "a", "}}", ")">>,
             <<"$t(", "a", "{{", "a", "}}", ")">>}
  ELSE {<<"a">>, <<"0">>, <<"{", "a", "}">>, <<"{", "0", "}">>,
        <<"{", "a", "\n", "}">>}

PieceInputs(m) == { Concat(ps) : ps \in StringsOver(Pieces(m), MaxParts) }

CaseBodies == {<<>>, <<"a">>, <<"0">>}

RECURSIVE RenderCases(_)
RenderCases(cases) ==
  IF cases = <<>> THEN <<>>
  ELSE <<Head(cases).key, "{">> \o Head(cases).body \o <<"}">> \o
       RenderCases(Tail(cases))

RenderPlural(id, cases) == <<"{", id, "P">> \o RenderCases(cases) \o <<"}">>

PluralCases ==
  UNION { [1..n -> [key : IdChars, body : CaseBodies]] : n \in 1..MaxCases }

PluralInputs == { RenderPlural(id, cases) : id \in IdChars, cases \in PluralCases }

InputsOf(m) ==
  IF m = "sprintf" THEN InputStrings \cup PieceInputs(m)
  ELSE IF m = "i18next" THEN StringsOver(I18NextChars, MaxLen) \cup PieceInputs(m)
  ELSE StringsOver(IcuChars, MaxLen) \cup PieceInputs(m) \cup PluralInputs

RECURSIVE ReplaceAllFrom(_, _)
ReplaceAllFrom(acc, reps) ==
  IF reps = <<>> THEN acc
  ELSE ReplaceAllFrom(ReplaceFirst(acc, Head(reps).from, Head(reps).to),
                      Tail(reps))

\* replaceInterpolations: { clean, replacements }
ReplaceInterpolations(s, m) ==
  LET reps == Match(m, s)
  IN  [clean |-> ReplaceAllFrom(s, reps), replacements |-> reps]

\* reInsertInterpolations: every marker is replaced by its original, in order
RECURSIVE ReInsertInterpolations(_, _)
ReInsertInterpolations(acc, reps) ==
  IF reps = <<>> THEN acc
  ELSE ReInsertInterpolations(ReplaceFirst(acc, Head(reps).to, Head(reps).from),
                              Tail(reps))

MatchInit ==
  /\ mpc = "input"
  /\ matcher \in Matchers
  /\ input \in InputsOf(matcher)
  /\ clean = <<>>
  /\ replacements = <<>>
  /\ restored = <<>>

MatchIdle ==
  /\ mpc = "restored"
  /\ matcher = "sprintf"
  /\ input = <<>>
  /\ clean = <<>>
  /\ replacements = <<>>
  /\ restored = <<>>

Extract ==
  /\ mpc = "input"
  /\ ~MatchThrows(matcher, input)
  /\ LET r == ReplaceInterpolations(input, matcher)
     IN  /\ clean' = r.clean
         /\ replacements' = r.replacements
  /\ mpc' = "extracted"
  /\ UNCHANGED <<matcher, input, restored>>
  /\ UNCHANGED notMatch

Restore ==
  /\ mpc = "extracted"
  /\ restored' = ReInsertInterpolations(clean, replacements)
  /\ mpc' = "restored"
  /\ UNCHANGED <<matcher, input, clean, replacements>>
  /\ UNCHANGED notMatch

\* the matcher throws: replaceInterpolations returns nothing
ExtractThrows ==
  /\ mpc = "input"
  /\ MatchThrows(matcher, input)
  /\ mpc' = "threw"
  /\ UNCHANGED <<matcher, input, clean, replacements, restored>>
  /\ UNCHANGED notMatch

MatchNext ==
  \/ Extract
  \/ ExtractThrows
  \/ Restore

-----------------------------------------------------------------------------
(***************************************************************************)
(* loadTranslations(directory, exclude, fileType) of util/file-system.ts   *)
(* on a directory whose files may hold text that is no JSON.               *)
(***************************************************************************)

FileTypeHints == {"auto", "key-based", "natural"}

\* the JSON objects the files of the directory hold
LoadContents ==
  { <<>>,
    <<Leaf(<<"a">>, <<"p">>)>>,
    <<Leaf(<<"a", "b">>, <<"p">>)>>,
    <<Leaf(<<"x y">>, <<"p">>)>>,
    <<Node(<<"a">>, <<Leaf(<<"b">>, <<"p">>)>>)>>,
    <<Node(<<"a">>, <<Leaf(<<"b", "c">>, <<"p">>)>>)>>,
    <<Node(<<"a">>, <<Leaf(<<"x y">>, <<"p">>)>>)>>,
    <<Node(<<"a", "b">>, <<Leaf(<<"c">>, <<"p">>)>>)>>,
    <<Node(<<"a">>, <<Leaf(<<"b">>, <<"p">>)>>), Leaf(<<"c", "d">>, <<"q">>)>> }

\* the files of the directory that require() can read
ReadableFiles(dir, bad) ==
  [n \in FileNames |-> IF n \in bad THEN NoFile ELSE dir[n]]

\* a loadTranslations that leaves out the files it cannot read
LoadTranslationsOf_SkipsFile(dir, bad, type) ==
  LET names == SelectSeq(FileNameOrder, LAMBDA n : dir[n].present /\ n \notin bad)
  IN  [i \in 1..Len(names) |->
         LET json == dir[names[i]].json
             t    == IF type = "auto" THEN DetectFileType(json) ELSE type
         IN  [name |-> names[i], type |-> t, content |-> LoadContent(json, t)]]

\* loadTranslations: the files in glob order; require() throws on the first
\* file that holds no JSON and the error leaves the map, so nothing is
\* returned
LoadTranslationsOf(dir, bad, type) ==
  LET names == SelectSeq(FileNameOrder, LAMBDA n : dir[n].present)
  IN  IF \E i \in 1..Len(names) : names[i] \in bad
      THEN <<>>
      ELSE [i \in 1..Len(names) |->
              LET json == dir[names[i]].json
                  t    == IF type = "auto" THEN DetectFileType(json) ELSE type
              IN  [name |-> names[i], type |-> t, content |-> LoadContent(json, t)]]

\* require() throws on a file of the directory
LoadThrows(dir, bad) == \E n \in bad : dir[n].present

LoadInit ==
  /\ lpc = "ready"
  /\ directory \in [FileNames -> {NoFile} \cup { File(c) : c \in LoadContents }]
  /\ malformed \in SUBSET FileNames
  /\ \A n \in malformed : directory[n] = File(<<>>)
  /\ fileType \in FileTypeHints
  /\ loaded = <<>>

LoadIdle ==
  /\ lpc = "loaded"
  /\ directory = [n \in FileNames |-> NoFile]
  /\ malformed = {}
  /\ fileType = "auto"
  /\ loaded = <<>>

\* loadTranslations returns the files of the directory
Load ==
  /\ lpc = "ready"
  /\ ~LoadThrows(directory, malformed)
  /\ loaded' = LoadTranslationsOf(directory, malformed, fileType)
  /\ lpc' = "loaded"
  /\ UNCHANGED <<directory, malformed, fileType>>
  /\ UNCHANGED notLoad

\* require() throws: the error leaves loadTranslations
LoadFails ==
  /\ lpc = "ready"
  /\ LoadThrows(directory, malformed)
  /\ loaded' = LoadTranslationsOf(directory, malformed, fileType)
  /\ lpc' = "threw"
  /\ UNCHANGED <<directory, malformed, fileType>>
  /\ UNCHANGED notLoad

LoadNext ==
  \/ Load
  \/ LoadFails

-----------------------------------------------------------------------------
(***************************************************************************)
(* translateStrings of the services that make one call per string          *)
(* (GoogleTranslate, AmazonTranslate): Promise.all over strings.map of an  *)
(* async callback.                                                         *)
(***************************************************************************)

\* the units a list is made of; a list may hold a unit twice
UnitKinds == { AllUnits[1], AllUnits[2] }

\* what the callback returns for a unit: { key, value, translated }
ResultOf(unit) == TranslationResults(<<unit>>, "de")[1]

\* a Promise.all that collects the values in the order the promises fulfil
PromiseAllValue_AsSettled(us, order) ==
  [k \in 1..Len(us) |-> ResultOf(us[order[k]])]

\* the value Promise.all fulfils with: the value of every promise, at the
\* index of the promise
PromiseAllValue(us, order) ==
  [k \in 1..Len(us) |-> ResultOf(us[k])]

AllInit ==
  /\ apc = "ready"
  /\ \E n \in 0..MaxUnits : inputs \in [1..n -> UnitKinds]
  /\ promises = <<>>
  /\ settled = <<>>
  /\ allResult = <<>>

AllIdle ==
  /\ apc = "fulfilled"
  /\ inputs = <<>>
  /\ promises = <<>>
  /\ settled = <<>>
  /\ allResult = <<>>

\* translateStrings is called: strings.map starts every callback, the call
\* of every unit is in flight; Promise.all of no promise is fulfilled
CallAll ==
  /\ apc = "ready"
  /\ promises' = [i \in 1..Len(inputs) |-> "pending"]
  /\ apc' = IF inputs = <<>> THEN "fulfilled" ELSE "pending"
  /\ UNCHANGED <<inputs, settled, allResult>>
  /\ UNCHANGED notAll

\* the call of a unit is answered and its callback returns: its promise is
\* fulfilled, and Promise.all is once the last one is
CallReturns ==
  /\ apc # "ready"
  /\ \E i \in 1..Len(inputs) :
       /\ promises[i] = "pending"
       /\ promises' = [promises EXCEPT ![i] = "fulfilled"]
       /\ settled' = Append(settled, i)
       /\ IF apc = "pending" /\ \A j \in 1..Len(inputs) : promises'[j] = "fulfilled"
          THEN /\ apc' = "fulfilled"
               /\ allResult' = PromiseAllValue(inputs, settled')
          ELSE UNCHANGED <<apc, allResult>>
  /\ UNCHANGED inputs
  /\ UNCHANGED notAll

\* the call of a unit fails and its callback throws: its promise is
\* rejected, and Promise.all is rejected with the first such error
CallThrows ==
  /\ apc # "ready"
  /\ \E i \in 1..Len(inputs) :
       /\ promises[i] = "pending"
       /\ promises' = [promises EXCEPT ![i] = "rejected"]
       /\ settled' = Append(settled, i)
  /\ apc' = "rejected"
  /\ UNCHANGED <<inputs, allResult>>
  /\ UNCHANGED notAll

AllNext ==
  \/ CallAll
  \/ CallReturns
  \/ CallThrows

-----------------------------------------------------------------------------
(***************************************************************************)
(* The specifications.                                                     *)
(***************************************************************************)

FileSpecInit == FileInit /\ RunIdle /\ BatchIdle /\ MatchIdle /\ LoadIdle /\ AllIdle

FileSpec == FileSpecInit /\ [][FileNext]_vars

RunSpecInit == RunInit /\ FileIdle /\ BatchIdle /\ MatchIdle /\ LoadIdle /\ AllIdle

RunSpec == RunSpecInit /\ [][RunNext]_vars

BatchSpecInit == BatchInit /\ FileIdle /\ RunIdle /\ MatchIdle /\ LoadIdle /\ AllIdle

BatchSpec == BatchSpecInit /\ [][BatchNext]_vars

MatchSpecInit == MatchInit /\ FileIdle /\ RunIdle /\ BatchIdle /\ LoadIdle /\ AllIdle

MatchSpec == MatchSpecInit /\ [][MatchNext]_vars

LoadSpecInit == LoadInit /\ FileIdle /\ RunIdle /\ BatchIdle /\ MatchIdle /\ AllIdle

LoadSpec == LoadSpecInit /\ [][LoadNext]_vars

AllSpecInit ==
  AllInit /\ FileIdle /\ RunIdle /\ BatchIdle /\ MatchIdle /\ LoadIdle

AllSpec == AllSpecInit /\ [][AllNext]_vars

-----------------------------------------------------------------------------
(***************************************************************************)
(* Properties of one translateContent call (FileSpec).                     *)
(***************************************************************************)

KeySet(cat) == Range(ObjectKeys(cat))

SubmittedKeys == { submitted[i].key : i \in 1..Len(submitted) }

\* the target catalog as the next run loads it from the written file
Persisted == LoadContent(written.json, fopts.type)

\* section 4.3 of the specification, a cached snapshot existing: the keys of
\* current that are absent from cached or have a different value there
ChangedKeysOfSpec(current, cached) ==
  { k \in KeySet(current) :
      ~HasKey(cached, k) \/ Lookup(cached, k) # Lookup(current, k) }

\* C2: the keys submitted to translateStrings are exactly the source keys
\* that are not in the target, united with changedKeys(source, cache); stated
\* for the calls that find a cached snapshot.
C2_WorkSetIsMissingOrChanged ==
  (fpc # "ready" /\ cacheFile.present) =>
    SubmittedKeys =
      { k \in KeySet(sourceFile.content) :
          k \notin KeySet(ExistingTranslations(destinationFile)) }
      \cup ChangedKeysOfSpec(sourceFile.content, Flatten(cacheFile.json))

\* C3: with a cached snapshot, the changed keys computed are exactly the keys
\* of the current catalog that are absent from the snapshot or differ from it
\* in value, whatever the value (the empty string included).
C3_ChangedKeysExact ==
  (fpc # "ready" /\ cacheFile.present) =>
    Range(cacheDiff) =
      ChangedKeysOfSpec(sourceFile.content, Flatten(cacheFile.json))

PrunedKeys ==
  IF fopts.deleteUnusedStrings
  THEN KeySet(ExistingTranslations(destinationFile)) \ KeySet(sourceFile.content)
  ELSE {}

\* C5: with delete-unused-strings, no key of the loaded target catalog that is
\* absent from the source catalog is in the target catalog the call persists.
C5_PrunedKeysNotPersisted ==
  (fpc = "done" /\ written.present /\ fopts.deleteUnusedStrings) =>
    \A k \in KeySet(ExistingTranslations(destinationFile)) :
      k \notin KeySet(sourceFile.content) => k \notin KeySet(Persisted)

C5_Witness ==
  /\ fpc = "done" /\ written.present /\ fopts.deleteUnusedStrings
  /\ \E k \in KeySet(ExistingTranslations(destinationFile)) :
       k \notin KeySet(sourceFile.content)
  /\ KeySet(Persisted) # {}

\* C6: every key of the loaded target catalog that is neither in the work set
\* nor pruned is in the persisted target catalog with its value unchanged.
C6_UntouchedKeysKept ==
  (fpc = "done" /\ written.present) =>
    \A k \in KeySet(ExistingTranslations(destinationFile)) :
      (k \notin SubmittedKeys /\ k \notin PrunedKeys) =>
        /\ HasKey(Persisted, k)
        /\ Lookup(Persisted, k) = Lookup(destinationFile.content, k)

\* C7: every key the provider returned in this call is in the persisted
\* target catalog with its newly translated value.
C7_TranslatedKeysPersisted ==
  (fpc = "done" /\ written.present) =>
    \A i \in 1..Len(translated) :
      /\ HasKey(Persisted, translated[i].key)
      /\ Lookup(Persisted, translated[i].key) = translated[i].translated

\* C16, as stated: without a cache file of the source file every key of the
\* source catalog is submitted, the keys the target catalog holds included.
C16_FirstRunSubmitsEveryKey ==
  (fpc # "ready" /\ ~cacheFile.present) =>
    SubmittedKeys = KeySet(sourceFile.content)

\* C16, amended: without a cache file of the source file no key is treated as
\* changed: the keys submitted are exactly the keys of the source catalog
\* that the loaded target catalog does not hold.
C16_FirstRunSubmitsMissingKeys ==
  (fpc # "ready" /\ ~cacheFile.present) =>
    /\ cacheDiff = <<>>
    /\ SubmittedKeys =
         KeySet(sourceFile.content) \ KeySet(ExistingTranslations(destinationFile))

C16_Witness ==
  /\ fpc = "done" /\ ~cacheFile.present
  /\ SubmittedKeys # {}
  /\ KeySet(sourceFile.content) \cap KeySet(ExistingTranslations(destinationFile)) # {}

-----------------------------------------------------------------------------
(***************************************************************************)
(* Properties of runs (RunSpec).                                           *)
(***************************************************************************)

\* C4: a run that follows a finished run of a translating service, with no
\* edit of the source in between, submits no unit to the provider, for every
\* target language and file.
C4_RerunSubmitsNothing ==
  (rerun /\ ropts.service # "dry-run") =>
    \A i \in 1..Len(calls) : calls[i].strings = <<>>

\* the translateStrings calls of the current run for a language and a file
CallsOf(language, name) ==
  { j \in 1..Len(calls) : calls[j].lang = language /\ calls[j].file = name }

TemplateNames == { templateFiles[j].name : j \in 1..Len(templateFiles) }

UntouchedSinceStart(language, name) ==
  /\ tgtDir[language][name] = diskAtStart.tgt[language][name]
  /\ langCacheDir[language][name] = diskAtStart.langCache[language][name]

C12_FailedLanguageWritesNothing ==
  (thrownIn # "") =>
    \A j \in 1..Len(calls) : calls[j].lang = thrownIn => ~calls[j].persisted

\* C12, amended: the file on which translateStrings throws is not written,
\* neither as target file nor as cache file of the language, nor is any later
\* file of the language; the files of the language translated before it in
\* the run have been written.
C12_FailedFileWritesNothing ==
  (thrownIn # "") =>
    /\ \A j \in fileIdx..Len(templateFiles) :
         /\ UntouchedSinceStart(thrownIn, templateFiles[j].name)
         /\ \A c \in CallsOf(thrownIn, templateFiles[j].name) :
              ~calls[c].persisted
    /\ \A j \in 1..(fileIdx - 1) :
         /\ \E c \in CallsOf(thrownIn, templateFiles[j].name) :
              calls[c].persisted
         /\ tgtDir[thrownIn][templateFiles[j].name].present
         /\ langCacheDir[thrownIn][templateFiles[j].name].present

C12_Witness ==
  /\ thrownIn = "de" /\ fileIdx = 2
  /\ tgtDir["de"]["f"] # diskAtStart.tgt["de"]["f"]
  /\ ~tgtDir["de"]["g"].present

\* C13: for a target language the service does not support no translateStrings
\* call is made and no file is written, and a run that reaches its end has
\* processed every supported language, for every source file.
C13_UnsupportedLanguageSkipped ==
  /\ \A l \in Range(TargetLanguages) \ ropts.supported :
       \A n \in FileNames :
         CallsOf(l, n) = {} /\ UntouchedSinceStart(l, n)
  /\ (rpc = "idle" /\ runs >= 1) =>
       \A l \in ropts.supported :
         \A n \in TemplateNames : CallsOf(l, n) # {}

C13_Witness ==
  /\ rpc = "idle" /\ runs >= 1
  /\ "de" \notin ropts.supported
  /\ tgtDir["de"]["f"].present
  /\ \E j \in 1..Len(calls) :
       calls[j].lang = "fr" /\ calls[j].persisted /\ calls[j].strings # <<>>

\* C14: with the dry-run service no target file is written, no cache file of
\* a language is written and no cache file of the source is written.
C14_DryRunWritesNothing ==
  (ropts.service = "dry-run") =>
    /\ \A j \in 1..Len(calls) : ~calls[j].persisted
    /\ \A l \in Range(TargetLanguages), n \in FileNames :
         tgtDir[l][n].present => tgtDir[l][n] = diskAtStart.tgt[l][n]
    /\ langCacheDir = diskAtStart.langCache
    /\ cacheDir = diskAtStart.cache

-----------------------------------------------------------------------------
(***************************************************************************)
(* Properties of DeepL.translateStrings (BatchSpec).                       *)
(***************************************************************************)

\* C8: a rate-limited batch call is retried at most 5 times, the error of a
\* rate-limited call is raised only once these 5 retries are used, and every
\* batch starts with the full budget whatever the batches before it used.
C8_RetryBudgetPerBatch ==
  /\ retries <= 5
  /\ (bpc = "fetch") => (triesLeft + retries = 5)
  /\ (bpc = "thrown" /\ error.status = 429) => (retries = 5)

C8_Witness ==
  /\ bpc = "thrown" /\ error.status = 429 /\ retries = 5
  /\ Len(batches) = 2 /\ responses # <<>>

\* C9: a response that is not ok and not a 429 is not retried: runTranslation
\* throws at once, whatever triesLeft is, an error with the status and the
\* body (or 'Empty body'), and translateStrings returns no result.
C9_OtherFailureThrowsAtOnce ==
  (~lastResponse.ok /\ lastResponse.status # 429) =>
    /\ bpc = "thrown"
    /\ error.status = lastResponse.status
    /\ error.body = (IF lastResponse.text = "" THEN "Empty body"
                     ELSE lastResponse.text)
    /\ ~result.returned

C9_Witness ==
  /\ bpc = "thrown" /\ lastResponse.status = 500 /\ lastResponse.text = ""
  /\ triesLeft > 0 /\ triesLeft < 5
  /\ responses # <<>> /\ ~result.returned

\* C10: the batches are the consecutive chunks of at most batchSize units, one
\* after the other, and the results returned are those of the units in order.
C10_ConsecutiveBatchesInOrder ==
  /\ \A k \in 1..Len(batches) :
       /\ Len(batches[k]) <= batchSize
       /\ batches[k] = SubSeq(strings, (k - 1) * batchSize + 1,
                              Min(k * batchSize, Len(strings)))
  /\ (bpc = "done") =>
       /\ Len(result.value) = Len(strings)
       /\ \A n \in 1..Len(strings) : result.value[n].key = strings[n].key

-----------------------------------------------------------------------------
(***************************************************************************)
(* Properties of the matcher engine (MatchSpec).                           *)
(***************************************************************************)

\* C1: restoring the marked text of a string with the replacements of the same
\* extraction gives the string back, for every input, the inputs that hold
\* the text of a marker included.
C1_RoundTrip == (mpc = "restored") => (restored = input)

\* a text that is one placeholder of the grammar of matcher m
IsPlaceholder(m, t) ==
  IF m = "sprintf" THEN Len(t) = 2 /\ t[1] = "%"
  ELSE IF m = "i18next"
       THEN /\ Len(t) >= 3
            /\ \/ t[1] = "{{" /\ t[Len(t)] = "}}"
               \/ t[1] = "$t(" /\ t[Len(t)] = ")"
  ELSE /\ Parse(t).ok
       /\ Len(Parse(t).parts) = 1
       /\ Parse(t).parts[1].type # "string"

HasPlaceholder(m, s) ==
  \E j \in 1..Len(s) : \E k \in j..Len(s) : IsPlaceholder(m, SubSeq(s, j, k))

\* C17: extracting from a string that holds no placeholder of the grammar
\* gives no replacement and a marked text equal to the input, for every
\* grammar.
C17_NoPlaceholderNoOp ==
  (mpc # "input" /\ ~HasPlaceholder(matcher, input)) =>
    /\ mpc # "threw"
    /\ replacements = <<>>
    /\ clean = input

LiteralTexts == {<<"a">>, <<"0">>}

Placeholders(m) ==
  IF m = "sprintf" THEN {<<"%", "a">>, <<"%", "0">>}
  ELSE IF m = "i18next" THEN {<<"{{", "a", "}}">>, <<"$t(", "a", ")">>}
  ELSE {<<"{", "a", "}">>, <<"{", "0", "}">>}

Replacement(from, index) == [from |-> from, to |-> XmlStyleReplacer(index)]

\* C18: of a string with one or two placeholders separated by literal text
\* the replacements are the placeholders from left to right, the i-th with
\* the marker of index i (two equal placeholders have different markers),
\* and the marked text is the input with each placeholder replaced by its
\* marker.
C18_EachOccurrenceItsMarker ==
  (mpc # "input") =>
    \A o1 \in Placeholders(matcher), o2 \in Placeholders(matcher),
       l0 \in LiteralTexts \cup {<<>>}, l2 \in LiteralTexts \cup {<<>>},
       l1 \in LiteralTexts :
      /\ (input = l0 \o o1 \o l2) =>
           /\ mpc # "threw"
           /\ replacements = <<Replacement(o1, 0)>>
           /\ clean = l0 \o XmlStyleReplacer(0) \o l2
      /\ (input = l0 \o o1 \o l1 \o o2 \o l2) =>
           /\ mpc # "threw"
           /\ replacements = <<Replacement(o1, 0), Replacement(o2, 1)>>
           /\ clean = l0 \o XmlStyleReplacer(0) \o l1 \o XmlStyleReplacer(1) \o l2

\* the text of a plural between its case bodies: up to the first body, between
\* two bodies, and the closing braces
Segments(id, cases) ==
  [n \in 1..(Len(cases) + 1) |->
     IF n = 1 THEN <<"{", id, "P", cases[1].key, "{">>
     ELSE IF n <= Len(cases) THEN <<"}", cases[n].key, "{">>
     ELSE <<"}", "}">>]

\* the marked text of a plural: markers and case bodies in turn
MarkedPlural(cases) ==
  Concat([n \in 1..(2 * Len(cases) + 1) |->
            IF n % 2 = 1 THEN XmlStyleReplacer((n - 1) \div 2)
            ELSE cases[n \div 2].body])

\* C19: of a plural with k non-empty case bodies matchIcu returns k + 1
\* replacements, the segments of the text between the case bodies in order
\* of appearance, and the case bodies stay literal in the marked text.
C19_PluralSegments ==
  (mpc # "input" /\ matcher = "icu") =>
    \A id \in IdChars, cases \in PluralCases :
      ( /\ input = RenderPlural(id, cases)
        /\ \A n \in 1..Len(cases) : cases[n].body # <<>> ) =>
        /\ mpc # "threw"
        /\ replacements =
             [n \in 1..(Len(cases) + 1) |->
                Replacement(Segments(id, cases)[n], n - 1)]
        /\ clean = MarkedPlural(cases)

\* the braces of s do not balance
RECURSIVE Depth(_, _)
Depth(s, n) ==
  IF n = 0 THEN 0
  ELSE Depth(s, n - 1) + (IF s[n] = "{" THEN 1 ELSE IF s[n] = "}" THEN 0 - 1 ELSE 0)

Unbalanced(s) ==
  \/ Depth(s, Len(s)) # 0
  \/ \E n \in 1..Len(s) : Depth(s, n) < 0

\* the expression derived from the parse tree matches nowhere in s
NoMatchFound(s) ==
  Parse(s).ok /\ ~RegExpMatch(s, NestedIcuMatcher(Parse(s).parts)).ok

\* C20: on input with braces that do not balance, and on input on which the
\* derived expression finds no match, matchIcu raises no error and returns
\* no replacement, so that the marked text is the input.
C20_FailOpen ==
  (mpc # "input" /\ matcher = "icu" /\
     (Unbalanced(input) \/ NoMatchFound(input))) =>
    /\ mpc # "threw"
    /\ replacements = <<>>
    /\ clean = input

\* nesting expressions whose argument holds an interpolation
NestedCalls ==
  {<<"$t(", "{{", "a", "}}", ")">>, <<"$t(", "a", "{{", "a", "}}", ")">>}

\* C21: an i18next nesting expression whose argument holds an interpolation
\* in double braces is extracted as one replacement that covers the whole
\* expression: the inner interpolation gets no replacement of its own, and
\* the marked text is the input with the expression replaced by its marker.
C21_NestedCallOneReplacement ==
  (mpc # "input" /\ matcher = "i18next") =>
    \A o1 \in NestedCalls, o2 \in NestedCalls,
       l0 \in {<<>>, <<"a">>}, l1 \in {<<"a">>}, l2 \in {<<>>, <<"a">>} :
      /\ (input = l0 \o o1 \o l2) =>
           /\ mpc # "threw"
           /\ replacements = <<Replacement(o1, 0)>>
           /\ clean = l0 \o XmlStyleReplacer(0) \o l2
      /\ (input = o1 \o l1 \o o2) =>
           /\ mpc # "threw"
           /\ replacements = <<Replacement(o1, 0), Replacement(o2, 1)>>
           /\ clean = XmlStyleReplacer(0) \o l1 \o XmlStyleReplacer(1)

C21_Witness ==
  /\ mpc = "restored"
  /\ matcher = "i18next"
  /\ input = <<"a", "$t(", "a", "{{", "a", "}}", ")", "a">>
  /\ Len(replacements) = 1
  /\ replacements[1].from = <<"$t(", "a", "{{", "a", "}}", ")">>


\* C29: when two ICU placeholders are adjacent, with no literal text between
\* them, matchIcu returns a single replacement whose original is the
\* concatenation of both placeholders, and restoring it reproduces the input.
C29_AdjacentPlaceholdersOneReplacement ==
  (mpc # "input" /\ matcher = "icu") =>
    \A o1 \in Placeholders("icu"), o2 \in Placeholders("icu"),
       l0 \in LiteralTexts \cup {<<>>}, l2 \in LiteralTexts \cup {<<>>} :
      (input = l0 \o o1 \o o2 \o l2) =>
        /\ mpc # "threw"
        /\ replacements = <<Replacement(o1 \o o2, 0)>>
        /\ clean = l0 \o XmlStyleReplacer(0) \o l2
        /\ (mpc = "restored") => (restored = input)

C29_Witness ==
  /\ mpc = "restored"
  /\ matcher = "icu"
  /\ input = <<"a", "{", "a", "}", "{", "0", "}">>
  /\ Len(replacements) = 1
  /\ replacements[1].from = <<"{", "a", "}", "{", "0", "}">>
  /\ restored = input


\* C28: with the dry-run service a run neither deletes nor modifies a file of
\* a target language directory, whatever the other options are: every file
\* of every target language is as the run found it.
C28_DryRunKeepsTargetFiles ==
  (ropts.service = "dry-run") => (tgtDir = diskAtStart.tgt)

\* C22: when the initialization of the provider fails, the run ends with the
\* failing exit: no translateStrings call has been made, and no target file,
\* no cache file of a language and no cache file of the source has been
\* written.
C22_InitializeFailureEndsRun ==
  initError =>
    /\ rpc = "exited"
    /\ calls = <<>>
    /\ tgtDir = diskAtStart.tgt
    /\ langCacheDir = diskAtStart.langCache
    /\ cacheDir = diskAtStart.cache

C22_Witness ==
  /\ initError
  /\ rpc = "exited"
  /\ FixRuns /\ ~FixThrows
  /\ "de" \in ropts.supported
  /\ ~tgtDir["de"]["f"].present

\* the results the provider returned to the calls cs that came back
RECURSIVE AddedBy(_)
AddedBy(cs) ==
  IF cs = <<>> THEN 0
  ELSE (IF Head(cs).threw THEN 0 ELSE Len(Head(cs).results)) + AddedBy(Tail(cs))

\* the keys the calls cs that came back pruned from their target catalogs
RECURSIVE PrunedBy(_, _)
PrunedBy(cs, deleteUnusedStrings) ==
  IF cs = <<>> THEN 0
  ELSE (IF Head(cs).threw \/ ~deleteUnusedStrings THEN 0
        ELSE Len(Head(cs).unused)) + PrunedBy(Tail(cs), deleteUnusedStrings)

\* C24: the total of added translations of a run is the sum, over the
\* (language, file) pairs the run processed, of the number of results the
\* provider returned for the pair; the total of removed translations is the
\* sum of the numbers of keys pruned, and it is 0 when delete-unused-strings
\* is off.
C24_TotalsAreSums ==
  /\ totalAddedTranslations = AddedBy(calls)
  /\ totalRemovedTranslations = PrunedBy(calls, ropts.deleteUnusedStrings)
  /\ ~ropts.deleteUnusedStrings => totalRemovedTranslations = 0

C24_Witness ==
  /\ rpc = "idle" /\ runs >= 1
  /\ Len(calls) >= 2
  /\ totalAddedTranslations >= 2
  /\ totalRemovedTranslations >= 1
  /\ \E j \in 1..Len(calls) : calls[j].results # <<>> /\ calls[j].unused = <<>>

\* the run in progress fixed inconsistent source files before its first
\* language
FixRan == ropts.fixInconsistencies /\ InconsistentFiles(templateFiles) # <<>>

\* the changed keys a run started now would compute for the source file name
NextCacheDiff(name) ==
  CacheDiff(cacheDir[name], FindFile(LoadTranslations(srcDir), name).content)

\* C27, as stated: the cache files of the source are written only by the
\* step that ends a run in which every language was processed without error.
C27_SnapshotReplacedOnlyAtEnd ==
  [][cacheDir' # cacheDir =>
       /\ rpc = "langs" /\ langIdx > Len(TargetLanguages)
       /\ thrownIn = "" /\ rpc' = "idle"]_vars

\* C27, amended: the cache files of the source are written only by the fix
\* of inconsistent source files before the first language and by the copy at
\* the end of a run in which no language threw; the calls of a run for one
\* source file all computed the same changed keys; and after a language
\* threw in a run that fixed no source file, the cache files are as the run
\* found them and a run started on the same source computes the same changed
\* keys.
C27_SnapshotWrittenAtStartOrEnd ==
  /\ [][cacheDir' # cacheDir =>
          \/ /\ rpc \in {"idle", "exited"} /\ rpc' = "langs"
             /\ FixRuns
          \/ /\ rpc = "langs" /\ langIdx > Len(TargetLanguages)
             /\ thrownIn = "" /\ rpc' = "idle"]_vars
  /\ [](\A i \in 1..Len(calls), j \in 1..Len(calls) :
          calls[i].file = calls[j].file => calls[i].cacheDiff = calls[j].cacheDiff)
  /\ []((thrownIn # "" /\ ~FixRan) =>
          /\ cacheDir = diskAtStart.cache
          /\ (srcDir = diskAtStart.src) =>
               \A j \in 1..Len(calls) :
                 NextCacheDiff(calls[j].file) = calls[j].cacheDiff)

C27_Witness ==
  /\ thrownIn = "fr" /\ rpc = "exited"
  /\ ~FixRan
  /\ srcDir = diskAtStart.src
  /\ \E i \in 1..Len(calls), j \in 1..Len(calls) :
       /\ calls[i].lang = "de" /\ calls[j].lang = "fr"
       /\ calls[i].file = calls[j].file
       /\ calls[j].threw
       /\ calls[j].cacheDiff # <<>>

\* a call of translateStrings that is run to its end: the loop goes on while
\* its condition holds and every HTTP call is answered
BatchLiveSpec == BatchSpecInit /\ [][BatchNext]_vars /\ WF_vars(BatchNext)

\* C26: translateStrings comes to an end, by returning or by throwing, for
\* every batch size initialize can store and every list of units, when every
\* HTTP call is answered: every turn of the loop over the batches moves the
\* loop index forward, and no call of runTranslation is made with less than
\* 0 tries left.
C26_TranslateStringsTerminates ==
  /\ [][(bpc = "fetch" /\ bpc' = "loop") => loopI' > loopI]_vars
  /\ [](triesLeft >= 0)
  /\ <>(bpc \in {"done", "thrown"})

\* some string of the file, at any depth, has a key with a space or a period
NaturalKeyAnywhere(json) == \E p \in Leaves(json) : IsInvalidKey(p.name)

\* some string at the top level of the file has a key with a space or a
\* period
NaturalKeyAtTop(json) ==
  \E p \in Range(json) : p.leaf /\ IsInvalidKey(p.name)

\* the kind a file is loaded with, given the predicate of natural files
KindsAre(IsNatural(_)) ==
  \A i \in 1..Len(loaded) :
    LET json == directory[loaded[i].name].json
    IN  IF fileType = "auto"
        THEN loaded[i].type = (IF IsNatural(json) THEN "natural" ELSE "key-based")
        ELSE loaded[i].type = fileType

\* C23, as stated: without a hint a file is natural exactly when a string of
\* it, at any depth, has a key with a space or a period of its own;
\* otherwise it is key-based; a hint other than auto is the kind.
C23_NaturalIffKeyAnywhere ==
  (lpc = "loaded") => KindsAre(NaturalKeyAnywhere)

\* C23, amended: without a hint a file is natural exactly when a string at
\* the top level of the file as written has a key with a space or a period;
\* otherwise it is key-based, the empty file included; a hint other than
\* auto is the kind.
C23_NaturalIffKeyAtTop ==
  (lpc = "loaded") =>
    /\ KindsAre(NaturalKeyAtTop)
    /\ Len(loaded) = Cardinality({ n \in FileNames : directory[n].present })
    /\ \A i \in 1..Len(loaded) :
         (fileType = "auto" /\ directory[loaded[i].name].json = <<>>) =>
           loaded[i].type = "key-based"

C23_Witness ==
  /\ lpc = "loaded"
  /\ fileType = "auto"
  /\ Len(loaded) = 2
  /\ directory["f"].json = <<Node(<<"a">>, <<Leaf(<<"x y">>, <<"p">>)>>)>>
  /\ loaded[1].type = "key-based"
  /\ directory["g"].json = <<Leaf(<<"x y">>, <<"p">>)>>
  /\ loaded[2].type = "natural"

\* C25, as stated: when a file of the directory cannot be read, the other
\* files of the directory are loaded and returned.
C25_OtherFilesLoaded ==
  (lpc = "threw") =>
    loaded = LoadTranslationsOf(ReadableFiles(directory, malformed), {}, fileType)

\* C25, amended: when a file of the directory cannot be read, the load of
\* the directory fails as a whole and no file of it is returned.
C25_LoadFailsAsAWhole ==
  (lpc # "ready") =>
    IF \E n \in malformed : directory[n].present
    THEN lpc = "threw" /\ loaded = <<>>
    ELSE lpc = "loaded" /\
         Len(loaded) = Cardinality({ n \in FileNames : directory[n].present })

C25_Witness ==
  /\ lpc = "threw"
  /\ malformed = {"g"}
  /\ directory["f"] = File(<<Leaf(<<"a">>, <<"p">>)>>)
  /\ directory["g"].present
  /\ loaded = <<>>

\* C30: when translateStrings of a service that makes one call per string is
\* fulfilled, it returns one result per unit in the order of the units,
\* result i with the key and the value of unit i, whatever the order in
\* which the calls ended; when a call has failed, translateStrings is
\* rejected and returns no result.
C30_ResultsInInputOrder ==
  /\ (apc = "fulfilled") =>
       /\ Len(allResult) = Len(inputs)
       /\ \A i \in 1..Len(inputs) :
            /\ allResult[i].key = inputs[i].key
            /\ allResult[i].value = inputs[i].value
  /\ (\E i \in 1..Len(promises) : promises[i] = "rejected") =>
       /\ apc = "rejected"
       /\ allResult = <<>>
  /\ (apc = "rejected") => \E i \in 1..Len(promises) : promises[i] = "rejected"

C30_Witness ==
  /\ apc = "fulfilled"
  /\ Len(inputs) = 3
  /\ inputs[1] # inputs[2]
  /\ settled = <<2, 3, 1>>
  /\ allResult[1].key = inputs[1].key

=============================================================================
